---- MODULE Spec2Model ----
(***************************************************************************)
(* Streaming GPS drift detectors of GPSTrajectoryAnalyzer.                 *)
(*                                                                         *)
(* GPSProcessor (src/src/utils/gpsSimulationGenerator.ts:1163-1513) and    *)
(* GPSCore (src/unnamed/part_001:50-603) carry the same detector code; it  *)
(* is modelled once, as operators over a record `gps` holding the fields   *)
(* of one instance.                                                        *)
(*                                                                         *)
(* Geometry.  Fixes lie on a small integer grid (a local tangent plane).  *)
(* A distance is represented by its square, so that every comparison the   *)
(* code makes between distances is decided exactly in integers.  The      *)
(* coordinate-wise median may fall half-way between two grid lines, so a   *)
(* base point is kept in doubled coordinates, and distances to the base    *)
(* point (and the radius) are squares of doubled lengths.                  *)
(***************************************************************************)
EXTENDS Integers, Sequences, FiniteSets, TLC

(* ---------------------------- bounds ----------------------------------- *)
MaxCalls == 5            \* processPoint calls in one behaviour
MaxWindowSize == 2       \* windowSize is drawn from 1..MaxWindowSize
MaxDriftSequence == 3    \* maxDriftSequence is drawn from 1..MaxDriftSequence
MaxElapsed == 2          \* total clock advance in one behaviour
Epoch == 5               \* Date.now() when the detector is constructed

(* ----------------------- program constants ----------------------------- *)
validityPeriod == 1                 \* config.validityPeriod, in clock ticks
driftThresholdMultiplier == 2       \* config.driftThresholdMultiplier
linearMotionAngleThreshold == 30    \* config.linearMotionAngleThreshold (deg)
\* cos^2(linearMotionAngleThreshold) = CosSqNum / CosSqDen
CosSqNum == 3
CosSqDen == 4
LinearDistanceFactor == 5           \* "* 5" in isLinearMotion

NoPoint == [none |-> TRUE]
NaN == [nan |-> TRUE]

\* `throw new Error(...)`: the value of a routine that threw, and of a
\* method that let the exception escape with the fields as in `st`
Thrown == [thrown |-> TRUE]
ThrownAt(st) == [thrown |-> TRUE, st |-> st]
IsThrown(x) == "thrown" \in DOMAIN x

(* Grid positions fed to the detector: two near positions, three far ones  *)
(* forming a thin triangle, all within 5*K*radius of the base of <<A, B>>. *)
Positions ==
  { <<0, 0>>, <<0, 2>>, <<0, 4>>, <<1, 6>>, <<0, 8>> }

GPSPoint(pos, ts) == [lat |-> pos[1], lng |-> pos[2], timestamp |-> ts]

VARIABLES
  gps,          \* the fields of one GPSProcessor / GPSCore instance
  now,          \* Date.now()
  callCount,    \* number of processPoint calls made so far
  lastPoint,    \* argument of the last processPoint call
  lastResult,   \* value returned by the last processPoint call
  pc,           \* position in processTrajectory: "idle", "loop" or "done"
  originalPoints,  \* processTrajectory: the part of its argument read so far
  filteredPoints,  \* processTrajectory: its local list `filteredPoints`
  result,       \* processTrajectory: the ProcessedResult it returned
  analyzer,     \* the fields of one GpsTrajectoryAnalyzer instance
  driftRun,     \* analyzer calls that returned false since the last accepted
                \* fix or consecutive-drift handling (history)
  readings,     \* processTrajectory: the clock reading and the rounding
                \* outcome of each iteration so far (history)
  analyzerLocals,  \* GpsTrajectoryAnalyzer.processTrajectory: its local lists
  analyzerResult,  \* the ProcessingResult it returned
  packageResult,   \* the ProcessingResult GPSAlgorithmPackage.processTrajectory
                   \* makes of it
  threw,        \* an exception escaped the last processPoint call
  baseline,     \* the GPSPoint objects of the array handed to the simulator
  simulated,    \* what the last generateSimulatedData call returned
  simOptions,   \* the options of that call
  simRuns,      \* number of generateSimulatedData calls made so far
  driftConfigs, \* generateDriftConfigs: its arguments and what it returned
  packageConfig,   \* GPSAlgorithmPackage: its field `config`
  configCall,   \* the last configuration call: its name and its argument
  configCalls,  \* number of configuration calls made so far
  parserCall    \* the last converter call: its name, its argument and what
                \* it returned

batchVars == <<pc, originalPoints, filteredPoints, result>>

replayVars == <<readings, analyzerLocals, analyzerResult, packageResult>>

simVars == <<baseline, simulated, simOptions, simRuns, driftConfigs>>

detectorVars == <<gps, now, callCount, lastPoint, lastResult, batchVars, analyzer,
                  driftRun, replayVars, threw>>

configVars == <<packageConfig, configCall, configCalls>>

parserVars == <<parserCall>>

vars == <<detectorVars, simVars, configVars, parserVars>>

(* ------------------------- geometry kernel ----------------------------- *)
Sq(x) == x * x

Max2(a, b) == IF a >= b THEN a ELSE b

Range(s) == { s[i] : i \in 1..Len(s) }

\* the last n elements of s (all of s when it is shorter)
LastN(s, n) == IF Len(s) <= n THEN s ELSE SubSeq(s, Len(s) - n + 1, Len(s))

RECURSIVE Insert(_, _)
Insert(x, s) ==
  IF s = << >> THEN << x >>
  ELSE IF x <= Head(s) THEN << x >> \o s
  ELSE << Head(s) >> \o Insert(x, Tail(s))

RECURSIVE SortAsc(_)
SortAsc(s) == IF s = << >> THEN << >> ELSE Insert(Head(s), SortAsc(Tail(s)))

\* squared distance between two fixes (grid units)
haversineDistance(p1, p2) == Sq(p2.lat - p1.lat) + Sq(p2.lng - p1.lng)

\* squared doubled distance between a fix and a base point
\* (the base point is held in doubled coordinates)
haversineDistanceToBase(p, b) == Sq(2 * p.lat - b.lat) + Sq(2 * p.lng - b.lng)

\* mutant: the emptiness guard is off by one and rejects a single fix
calculateMedianPointOffByOne(points, t) ==
  LET n == Len(points)
      sortedByLat == SortAsc([i \in 1..n |-> points[i].lat])
      sortedByLng == SortAsc([i \in 1..n |-> points[i].lng])
      midIndex == n \div 2
  IN IF n <= 1 THEN Thrown
     ELSE IF n % 2 = 0
       THEN [lat |-> sortedByLat[midIndex] + sortedByLat[midIndex + 1],
             lng |-> sortedByLng[midIndex] + sortedByLng[midIndex + 1],
             timestamp |-> t]
       ELSE [lat |-> 2 * sortedByLat[midIndex + 1],
             lng |-> 2 * sortedByLng[midIndex + 1],
             timestamp |-> t]

\* coordinate-wise median, in doubled coordinates; throws on an empty set
calculateMedianPoint(points, t) ==
  LET n == Len(points)
      sortedByLat == SortAsc([i \in 1..n |-> points[i].lat])
      sortedByLng == SortAsc([i \in 1..n |-> points[i].lng])
      midIndex == n \div 2      \* 0-based index of the code = midIndex + 1 here
  IN IF n = 0 THEN Thrown
     ELSE IF n % 2 = 0
       THEN [lat |-> sortedByLat[midIndex] + sortedByLat[midIndex + 1],
             lng |-> sortedByLng[midIndex] + sortedByLng[midIndex + 1],
             timestamp |-> t]
       ELSE [lat |-> 2 * sortedByLat[midIndex + 1],
             lng |-> 2 * sortedByLng[midIndex + 1],
             timestamp |-> t]

\* The minimum angle lies opposite the shortest side.  With A the square of
\* the shortest side and B, C the squares of the two others, the law of
\* cosines gives cos^2(min) = (B + C - A)^2 / (4 B C).  The result is that
\* fraction, or NaN: a side of length 0 divides by zero, and on an exactly
\* degenerate triangle the argument of acos may round to just outside
\* [-1, 1] (the code does not clamp it), which the caller cannot foresee:
\* `rounding` says whether it does.
calculateMinAngleInTriangle(p1, p2, p3, rounding) ==
  LET a == haversineDistance(p2, p3)
      b == haversineDistance(p1, p3)
      c == haversineDistance(p1, p2)
      A == IF a <= b /\ a <= c THEN a ELSE IF b <= c THEN b ELSE c
      num == Sq(a + b + c - 2 * A)
      den == IF A = a THEN 4 * b * c ELSE IF A = b THEN 4 * a * c ELSE 4 * a * b
  IN IF a = 0 \/ b = 0 \/ c = 0 THEN NaN
     ELSE IF num = den /\ rounding THEN NaN
     ELSE [cosSqNum |-> num, cosSqDen |-> den]

\* minAngle < linearMotionAngleThreshold; false on NaN
AngleBelowThreshold(minAngle) ==
  /\ minAngle # NaN
  /\ minAngle.cosSqNum * CosSqDen > minAngle.cosSqDen * CosSqNum

(* --------------------- GPSProcessor / GPSCore -------------------------- *)
Window(st) == st.config.windowSize

\* mutant: the drift path uses the default of 10 instead of the configured value
DriftLimitDefault(st) == 10

DriftLimit(st) == st.config.maxDriftSequence

\* the state the field initialisers and processTrajectory's reset establish
FreshProcessor(cfg) ==
  [ config |-> cfg,
    slidingWindow |-> << >>,
    validPoints |-> << >>,
    lastBasePointTime |-> 0,
    basePoint |-> NoPoint,
    basePointRadius |-> 0,
    consecutiveDriftPoints |-> << >>,
    discardedDriftPointsCount |-> 0,
    basePointRebuildsCount |-> 0,
    basePointRebuildPositions |-> << >> ]

\* the "reset state" block at the head of processTrajectory
resetState(st) ==
  [st EXCEPT !.slidingWindow = << >>,
             !.validPoints = << >>,
             !.basePoint = NoPoint,
             !.lastBasePointTime = 0,
             !.basePointRadius = 0,
             !.consecutiveDriftPoints = << >>,
             !.discardedDriftPointsCount = 0,
             !.basePointRebuildsCount = 0,
             !.basePointRebuildPositions = << >>]

isBasePointExpired(st, t) == t - st.lastBasePointTime > st.config.validityPeriod

getStatus(st, t) ==
  [ slidingWindowSize |-> Len(st.slidingWindow),
    validPointsCount |-> Len(st.validPoints),
    hasBasePoint |-> st.basePoint # NoPoint,
    basePointRadius |-> st.basePointRadius,
    consecutiveDriftCount |-> Len(st.consecutiveDriftPoints),
    basePointAge |-> IF st.basePoint # NoPoint THEN t - st.lastBasePointTime ELSE 0,
    isBasePointExpired |-> isBasePointExpired(st, t),
    discardedDriftPointsCount |-> st.discardedDriftPointsCount,
    basePointRebuildsCount |-> st.basePointRebuildsCount,
    basePointRebuildPositions |-> st.basePointRebuildPositions ]

\* squared doubled maximum distance from the window's fixes to `base`
calculateBasePointRadius(st, base) ==
  IF base = NoPoint \/ Len(st.slidingWindow) < Window(st) THEN 0
  ELSE LET ds == { haversineDistanceToBase(st.slidingWindow[i], base) :
                     i \in 1..Len(st.slidingWindow) }
       IN CHOOSE m \in ds \cup {0} : \A d \in ds : d <= m

\* mutant: the base point is built only once the window exceeds windowSize
updateBasePointStrict(st, t) ==
  IF Len(st.slidingWindow) > Window(st)
    THEN LET base == calculateMedianPoint(st.slidingWindow, t)
         IN IF IsThrown(base) THEN ThrownAt(st)
            ELSE [st EXCEPT !.basePoint = base,
                            !.lastBasePointTime = t,
                            !.basePointRadius = calculateBasePointRadius(st, base)]
    ELSE st

updateBasePoint(st, t) ==
  IF Len(st.slidingWindow) >= Window(st)
    THEN LET base == calculateMedianPoint(st.slidingWindow, t)
         IN IF IsThrown(base) THEN ThrownAt(st)
            ELSE [st EXCEPT !.basePoint = base,
                            !.lastBasePointTime = t,
                            !.basePointRadius = calculateBasePointRadius(st, base)]
    ELSE st

\* mutant: a fix at exactly the threshold distance counts as a drift
isDriftPointInclusive(st, point) ==
  IF st.basePoint = NoPoint \/ st.basePointRadius = 0 THEN FALSE
  ELSE haversineDistanceToBase(point, st.basePoint)
         >= st.basePointRadius * Sq(driftThresholdMultiplier)

isDriftPoint(st, point) ==
  IF st.basePoint = NoPoint \/ st.basePointRadius = 0 THEN FALSE
  ELSE haversineDistanceToBase(point, st.basePoint)
         > st.basePointRadius * Sq(driftThresholdMultiplier)

isLinearMotion(st, points, rounding) ==
  IF Len(points) < 3 THEN FALSE
  ELSE LET n == Len(points)
           minAngle == calculateMinAngleInTriangle(points[n - 2], points[n - 1],
                                                   points[n], rounding)
           maxDistance == Max2(haversineDistanceToBase(points[n - 2], st.basePoint),
                            Max2(haversineDistanceToBase(points[n - 1], st.basePoint),
                                 haversineDistanceToBase(points[n], st.basePoint)))
           maxAllowedDistance == st.basePointRadius
                                   * Sq(driftThresholdMultiplier * LinearDistanceFactor)
       IN AngleBelowThreshold(minAngle) /\ maxDistance <= maxAllowedDistance

\* window.push(p); if (window.length > windowSize) window.shift()
PushWindow(window, p, W) ==
  LET w == Append(window, p) IN IF Len(w) > W THEN Tail(w) ELSE w

RECURSIVE RestoreDriftPoints(_, _, _)
RestoreDriftPoints(window, drift, W) ==
  IF drift = << >> THEN window
  ELSE RestoreDriftPoints(PushWindow(window, Head(drift), W), Tail(drift), W)

\* the outcome of a processPoint call: it returned `ret`, or it threw
Return(st, ret) == [st |-> st, ret |-> ret, threw |-> FALSE]
Raise(thrown) == [st |-> thrown.st, ret |-> FALSE, threw |-> TRUE]

\* processPoint, window not yet full
Warmup(st, point, t) ==
  LET s1 == [st EXCEPT !.slidingWindow = Append(@, point),
                       !.validPoints = Append(@, point)]
      s2 == IF Len(s1.slidingWindow) = Window(s1) THEN updateBasePoint(s1, t) ELSE s1
  IN IF IsThrown(s2) THEN Raise(s2) ELSE Return(s2, TRUE)

\* mutant: an expiry also restarts the rebuild statistics
ExpireResetsStatistics(st, point) ==
  Return([st EXCEPT !.slidingWindow = << point >>,
                    !.validPoints = Append(@, point),
                    !.basePoint = NoPoint,
                    !.basePointRadius = 0,
                    !.consecutiveDriftPoints = << >>,
                    !.basePointRebuildsCount = 0,
                    !.basePointRebuildPositions = << >>],
         TRUE)

\* processPoint, base point expired
Expire(st, point) ==
  Return([st EXCEPT !.slidingWindow = << point >>,
                    !.validPoints = Append(@, point),
                    !.basePoint = NoPoint,
                    !.basePointRadius = 0,
                    !.consecutiveDriftPoints = << >>],
         TRUE)

\* mutant: only the triggering fix is restored, the buffered ones are dropped
LinearRecoveryCurrentOnly(st, point, t) ==
  LET s1 == [st EXCEPT
               !.validPoints = Append(@, point),
               !.slidingWindow = PushWindow(@, point, Window(st)),
               !.consecutiveDriftPoints = << >>]
      s2 == updateBasePoint(s1, t)
  IN IF IsThrown(s2) THEN Raise(s2)
     ELSE Return([s2 EXCEPT !.basePointRebuildsCount = @ + 1,
                            !.basePointRebuildPositions = Append(@, point)],
                 TRUE)

\* processPoint, drift candidate recognised as straight-line motion
LinearRecovery(st, point, t) ==
  LET s1 == [st EXCEPT
               !.validPoints = @ \o st.consecutiveDriftPoints,
               !.slidingWindow =
                  RestoreDriftPoints(@, st.consecutiveDriftPoints, Window(st)),
               !.consecutiveDriftPoints = << >>]
      s2 == updateBasePoint(s1, t)
  IN IF IsThrown(s2) THEN Raise(s2)
     ELSE Return([s2 EXCEPT !.basePointRebuildsCount = @ + 1,
                            !.basePointRebuildPositions = Append(@, point)],
                 TRUE)

\* mutant: the window is not reseeded from the drift buffer
ForcedRebuildKeepsWindow(st, point, t) ==
  LET s1 == [st EXCEPT !.consecutiveDriftPoints = << >>]
      s2 == updateBasePoint(s1, t)
  IN IF IsThrown(s2) THEN Raise(s2)
     ELSE Return([s2 EXCEPT !.basePointRebuildsCount = @ + 1,
                            !.basePointRebuildPositions = Append(@, point),
                            !.validPoints = Append(@, point)],
                 TRUE)

\* processPoint, maxDriftSequence consecutive drift candidates
ForcedRebuild(st, point, t) ==
  LET s1 == [st EXCEPT !.slidingWindow = st.consecutiveDriftPoints,
                       !.consecutiveDriftPoints = << >>]
      s2 == updateBasePoint(s1, t)
  IN IF IsThrown(s2) THEN Raise(s2)
     ELSE Return([s2 EXCEPT !.basePointRebuildsCount = @ + 1,
                            !.basePointRebuildPositions = Append(@, point),
                            !.validPoints = Append(@, point)],
                 TRUE)

\* mutant: a rejected fix also enters the sliding window
DriftPathTouchesWindow(st, point, t, rounding) ==
  LET pushed == Append(st.consecutiveDriftPoints, point)
      s1 == [st EXCEPT !.consecutiveDriftPoints =
                          IF Len(pushed) > DriftLimit(st) THEN Tail(pushed) ELSE pushed]
  IN IF Len(s1.consecutiveDriftPoints) >= 3
          /\ isLinearMotion(s1, s1.consecutiveDriftPoints, rounding)
       THEN LinearRecovery(s1, point, t)
     ELSE IF Len(s1.consecutiveDriftPoints) >= DriftLimit(s1)
       THEN ForcedRebuild(s1, point, t)
     ELSE Return([s1 EXCEPT !.discardedDriftPointsCount = @ + 1,
                            !.slidingWindow = PushWindow(@, point, Window(st))],
                 FALSE)

\* processPoint, the fix is a drift candidate
DriftPath(st, point, t, rounding) ==
  LET pushed == Append(st.consecutiveDriftPoints, point)
      s1 == [st EXCEPT !.consecutiveDriftPoints =
                          IF Len(pushed) > DriftLimit(st) THEN Tail(pushed) ELSE pushed]
  IN IF Len(s1.consecutiveDriftPoints) >= 3
          /\ isLinearMotion(s1, s1.consecutiveDriftPoints, rounding)
       THEN LinearRecovery(s1, point, t)
     ELSE IF Len(s1.consecutiveDriftPoints) >= DriftLimit(s1)
       THEN ForcedRebuild(s1, point, t)
     ELSE Return([s1 EXCEPT !.discardedDriftPointsCount = @ + 1], FALSE)

\* mutant: a fix within the threshold leaves the drift buffer as it is
ValidPathKeepsBuffer(st, point, t) ==
  LET s1 == [st EXCEPT !.slidingWindow = PushWindow(@, point, Window(st)),
                       !.validPoints = Append(@, point)]
      s2 == updateBasePoint(s1, t)
  IN IF IsThrown(s2) THEN Raise(s2) ELSE Return(s2, TRUE)

\* processPoint, the fix is within the drift threshold
ValidPath(st, point, t) ==
  LET s1 == [st EXCEPT !.consecutiveDriftPoints = << >>,
                       !.slidingWindow = PushWindow(@, point, Window(st)),
                       !.validPoints = Append(@, point)]
      s2 == updateBasePoint(s1, t)
  IN IF IsThrown(s2) THEN Raise(s2) ELSE Return(s2, TRUE)

\* mutant: the drift test runs before the expiry check
processPointDriftFirst(st, point, t, rounding) ==
  IF Len(st.slidingWindow) < Window(st) THEN Warmup(st, point, t)
  ELSE IF isDriftPoint(st, point) THEN DriftPath(st, point, t, rounding)
  ELSE IF isBasePointExpired(st, t) THEN Expire(st, point)
  ELSE ValidPath(st, point, t)

\* processPoint(point) called at clock reading t
processPoint(st, point, t, rounding) ==
  IF Len(st.slidingWindow) < Window(st) THEN Warmup(st, point, t)
  ELSE IF isBasePointExpired(st, t) THEN Expire(st, point)
  ELSE IF isDriftPoint(st, point) THEN DriftPath(st, point, t, rounding)
  ELSE ValidPath(st, point, t)

(* ---------------------- GpsTrajectoryAnalyzer -------------------------- *)
(* src/unnamed/part_002.  One grid unit is 50 m, the analyzer's minimum    *)
(* radius.  A centroid of n fixes is kept as the two coordinate sums and   *)
(* n; a distance to it is represented by the square of n times the         *)
(* distance.  A radius is either the floor of 50 m or a median of          *)
(* distances to the centroid: the mean of the square roots of `lo` and     *)
(* `hi`, over n.  Comparisons between these are decided exactly.           *)
MinRadius == 1           \* 50 m (Math.max(radius, 50)), in grid units

FloorRadius == [kind |-> "floor"]

Analyzer_reset(cfg) ==
  [ config |-> cfg,
    slidingWindow |-> << >>,
    validPoints |-> << >>,
    basePoint |-> NoPoint,
    consecutiveDriftCount |-> 0,
    processedCount |-> 0,
    filteredCount |-> 0,
    driftCount |-> 0,
    basePointRebuilds |-> 0,
    isInitialized |-> TRUE ]

\* mutant: reset() leaves the base point of the previous run in place
Analyzer_resetStateKeepsBasePoint(st) ==
  [st EXCEPT !.slidingWindow = << >>,
             !.validPoints = << >>,
             !.consecutiveDriftCount = 0,
             !.processedCount = 0,
             !.filteredCount = 0,
             !.driftCount = 0,
             !.basePointRebuilds = 0,
             !.isInitialized = TRUE]

\* reset() on an analyzer whose fields are `st`
Analyzer_resetState(st) ==
  [st EXCEPT !.slidingWindow = << >>,
             !.validPoints = << >>,
             !.basePoint = NoPoint,
             !.consecutiveDriftCount = 0,
             !.processedCount = 0,
             !.filteredCount = 0,
             !.driftCount = 0,
             !.basePointRebuilds = 0,
             !.isInitialized = TRUE]

\* array.slice(-k)
SliceLast(s, k) == IF k = 0 THEN s ELSE LastN(s, k)

\* throws on an empty set
calculateCentroid(points, t) ==
  LET n == Len(points)
      RECURSIVE Sum(_, _)
      Sum(i, isLat) ==
        IF i = 0 THEN 0
        ELSE (IF isLat THEN points[i].lat ELSE points[i].lng) + Sum(i - 1, isLat)
  IN IF n = 0 THEN Thrown
     ELSE [latSum |-> Sum(n, TRUE), lngSum |-> Sum(n, FALSE), n |-> n, timestamp |-> t]

\* square of (center.n * distance(p, center))
calculateDistance(p, center) ==
  Sq(center.n * p.lat - center.latSum) + Sq(center.n * p.lng - center.lngSum)

\* median of the distances to `center`, before the 50 m floor is applied
calculateRadius(points, center) ==
  LET n == Len(points)
      distances == SortAsc([i \in 1..n |-> calculateDistance(points[i], center)])
      midIndex == n \div 2
  IN IF n = 0 THEN FloorRadius
     ELSE IF n % 2 = 0
       THEN [kind |-> "median", lo |-> distances[midIndex],
             hi |-> distances[midIndex + 1], n |-> center.n]
       ELSE [kind |-> "median", lo |-> distances[midIndex + 1],
             hi |-> distances[midIndex + 1], n |-> center.n]

\* radius > MinRadius:  sqrt(lo) + sqrt(hi) > 2 n MinRadius
AboveMinRadius(radius) ==
  /\ radius.kind = "median"
  /\ LET Y == 4 * Sq(radius.n * MinRadius) - radius.lo - radius.hi
     IN Y < 0 \/ 4 * radius.lo * radius.hi > Sq(Y)

\* mutant: the 50 m floor is not applied
MaxWithoutFloor(radius) == radius

\* Math.max(radius, 50)
MaxWithMinRadius(radius) == IF AboveMinRadius(radius) THEN radius ELSE FloorRadius

\* distance(point, center) > radius * driftThresholdMultiplier, where
\* d is the represented distance of `point` to `center`
ExceedsThreshold(d, center, radius) ==
  IF radius.kind = "floor"
    THEN d > Sq(driftThresholdMultiplier * MinRadius * center.n)
    ELSE LET X == 4 * d - Sq(driftThresholdMultiplier) * (radius.lo + radius.hi)
         IN X > 0 /\ Sq(X) > 4 * Sq(Sq(driftThresholdMultiplier)) * radius.lo * radius.hi

Analyzer_addToSlidingWindow(st, point) ==
  [st EXCEPT !.slidingWindow =
      PushWindow(@, [point |-> point, isValid |-> FALSE, isDrift |-> FALSE],
                 st.config.windowSize)]

Analyzer_checkBasePointExpiry(st, currentTimestamp) ==
  IF st.basePoint # NoPoint
       /\ currentTimestamp - st.basePoint.createdAt > st.config.validityPeriod
    THEN [st EXCEPT !.basePoint = NoPoint]
    ELSE st

Analyzer_isDriftPoint(st, point) ==
  IF st.basePoint = NoPoint THEN FALSE
  ELSE ExceedsThreshold(calculateDistance(point, st.basePoint.point),
                        st.basePoint.point, st.basePoint.radius)

\* angle > linearMotionAngleThreshold, for the analyzer's routine, which
\* returns 0 when a side has length 0; a NaN compares false
Analyzer_AngleAboveThreshold(p1, p2, p3) ==
  LET a == haversineDistance(p2, p3)
      b == haversineDistance(p1, p3)
      c == haversineDistance(p1, p2)
      A == IF a <= b /\ a <= c THEN a ELSE IF b <= c THEN b ELSE c
      num == Sq(a + b + c - 2 * A)
      den == IF A = a THEN 4 * b * c ELSE IF A = b THEN 4 * a * c ELSE 4 * a * b
  IN IF a = 0 \/ b = 0 \/ c = 0 THEN FALSE
     ELSE num * CosSqDen < den * CosSqNum

Analyzer_isLinearMotionMisjudgment(st) ==
  IF Len(st.slidingWindow) < 3 THEN FALSE
  ELSE LET recent == SliceLast(st.slidingWindow,
                       IF st.config.maxDriftSequence <= Len(st.slidingWindow)
                         THEN st.config.maxDriftSequence ELSE Len(st.slidingWindow))
       IN IF Len(recent) < 3 THEN FALSE
          ELSE \A i \in 2..(Len(recent) - 1) :
                 ~Analyzer_AngleAboveThreshold(recent[i - 1].point, recent[i].point,
                                               recent[i + 1].point)

Analyzer_updateBasePoint(st, t) ==
  IF st.basePoint = NoPoint /\ Len(st.validPoints) >= 3
    THEN LET centroid == calculateCentroid(st.validPoints, t)
         IN IF IsThrown(centroid) THEN ThrownAt(st)
            ELSE [st EXCEPT !.basePoint =
                   [ point |-> centroid,
                     radius |-> MaxWithMinRadius(calculateRadius(st.validPoints, centroid)),
                     createdAt |-> t,
                     validPointsCount |-> Len(st.validPoints) ]]
  ELSE IF st.basePoint # NoPoint
    THEN LET recentPoints == SliceLast(st.validPoints, st.config.windowSize)
             centroid == calculateCentroid(recentPoints, t)
         IN IF IsThrown(centroid) THEN ThrownAt(st)
            ELSE [st EXCEPT !.basePoint.point = centroid,
                            !.basePoint.radius =
                               MaxWithMinRadius(calculateRadius(recentPoints, centroid)),
                            !.basePoint.validPointsCount = Len(recentPoints)]
  ELSE st

RECURSIVE SelectDrift(_)
SelectDrift(w) ==
  IF w = << >> THEN << >>
  ELSE (IF Head(w).isDrift THEN << Head(w).point >> ELSE << >>) \o SelectDrift(Tail(w))

Analyzer_recoverFromLinearMotion(st, t) ==
  LET recentDriftPoints ==
        SelectDrift(SliceLast(st.slidingWindow, st.consecutiveDriftCount))
      s1 == [st EXCEPT !.validPoints = @ \o recentDriftPoints,
                       !.filteredCount = @ - Len(recentDriftPoints),
                       !.driftCount = @ - Len(recentDriftPoints)]
  IN Analyzer_updateBasePoint(s1, t)

Analyzer_rebuildBasePoint(st, t) ==
  LET s1 == [st EXCEPT !.basePointRebuilds = @ + 1]
      recentValidPoints == SliceLast(st.validPoints, st.config.windowSize)
  IN IF Len(recentValidPoints) > 0
       THEN LET centroid == calculateCentroid(recentValidPoints, t)
            IN IF IsThrown(centroid) THEN ThrownAt(s1)
               ELSE [s1 EXCEPT !.basePoint =
                      [ point |-> centroid,
                        radius |-> MaxWithMinRadius(calculateRadius(recentValidPoints, centroid)),
                        createdAt |-> t,
                        validPointsCount |-> Len(recentValidPoints) ]]
       ELSE s1

Analyzer_handleConsecutiveDrift(st, t) ==
  LET s1 == IF Analyzer_isLinearMotionMisjudgment(st)
              THEN Analyzer_recoverFromLinearMotion(st, t)
              ELSE Analyzer_rebuildBasePoint(st, t)
  IN IF IsThrown(s1) THEN s1 ELSE [s1 EXCEPT !.consecutiveDriftCount = 0]

Analyzer_handleDriftPoint(st, t) ==
  LET n == Len(st.slidingWindow)
      s1 == [st EXCEPT !.consecutiveDriftCount = @ + 1,
                       !.driftCount = @ + 1,
                       !.filteredCount = @ + 1,
                       !.slidingWindow =
                          IF n > 0 THEN [@ EXCEPT ![n].isDrift = TRUE] ELSE @]
  IN IF s1.consecutiveDriftCount >= s1.config.maxDriftSequence
       THEN Analyzer_handleConsecutiveDrift(s1, t)
       ELSE s1

Analyzer_handleValidPoint(st, point, t) ==
  LET n == Len(st.slidingWindow)
      s1 == [st EXCEPT !.consecutiveDriftCount = 0,
                       !.validPoints = Append(@, point),
                       !.slidingWindow =
                          IF n > 0 THEN [@ EXCEPT ![n].isValid = TRUE] ELSE @]
  IN Analyzer_updateBasePoint(s1, t)

\* processPoint(point) called at clock reading t
Analyzer_processPoint(st, point, t) ==
  LET s0 == IF ~st.isInitialized THEN Analyzer_reset(st.config) ELSE st
      internalPoint == [lat |-> point.lat, lng |-> point.lng,
                        timestamp |-> point.timestamp, index |-> s0.processedCount]
      s1 == [s0 EXCEPT !.processedCount = @ + 1]
      s2 == Analyzer_addToSlidingWindow(s1, internalPoint)
      s3 == Analyzer_checkBasePointExpiry(s2, internalPoint.timestamp)
      isDrift == Analyzer_isDriftPoint(s3, internalPoint)
      s4 == IF isDrift
              THEN Analyzer_handleDriftPoint(
                     [s3 EXCEPT !.consecutiveDriftCount = @ + 1], t)
              ELSE Analyzer_handleValidPoint(
                     [s3 EXCEPT !.consecutiveDriftCount = 0], internalPoint, t)
  IN IF IsThrown(s4) THEN Raise(s4) ELSE Return(s4, ~isDrift)

Analyzer_getStatus(st, t) ==
  [ isInitialized |-> st.isInitialized,
    slidingWindowSize |-> Len(st.slidingWindow),
    validPointsCount |-> Len(st.validPoints),
    hasBasePoint |-> st.basePoint # NoPoint,
    consecutiveDriftCount |-> st.consecutiveDriftCount,
    basePointAge |-> IF st.basePoint # NoPoint THEN t - st.basePoint.createdAt ELSE 0,
    statistics |->
      [ totalInputPoints |-> st.processedCount,
        validOutputPoints |-> Len(st.validPoints),
        filteredPointsCount |-> st.filteredCount,
        discardedDriftPointsCount |-> st.driftCount,
        basePointRebuildsCount |-> st.basePointRebuilds ] ]

(* generateMarkers.  A marker is kept as its type, position and timestamp  *)
(* (the `info` text is derived from the same values).                      *)
HighSpeedThreshold == 25     \* m/s, `speed > 25`
MetersPerUnit == 50          \* one grid unit
SecondsPerTick == 15         \* one clock tick is validityPeriod = 15000 ms

\* slidingWindow.find(wp => same lat, lng, timestamp)?.isDrift || false
Analyzer_findIsDrift(st, point) ==
  LET hits == { i \in 1..Len(st.slidingWindow) :
                  /\ st.slidingWindow[i].point.lat = point.lat
                  /\ st.slidingWindow[i].point.lng = point.lng
                  /\ st.slidingWindow[i].point.timestamp = point.timestamp }
  IN IF hits = {} THEN FALSE
     ELSE st.slidingWindow[CHOOSE i \in hits : \A j \in hits : i <= j].isDrift

\* calculateMinAngleInTriangle(p1, p2, p3) > 150 (degrees): the cosine of
\* the angle opposite the shortest side is below cos(150) = -sqrt(3)/2
Analyzer_AngleAbove150(p1, p2, p3) ==
  LET a == haversineDistance(p2, p3)
      b == haversineDistance(p1, p3)
      c == haversineDistance(p1, p2)
      A == IF a <= b /\ a <= c THEN a ELSE IF b <= c THEN b ELSE c
      num == a + b + c - 2 * A
      den == IF A = a THEN 4 * b * c ELSE IF A = b THEN 4 * a * c ELSE 4 * a * b
  IN IF a = 0 \/ b = 0 \/ c = 0 THEN FALSE
     ELSE num < 0 /\ Sq(num) * CosSqDen > den * CosSqNum

\* distance / timeDiff > 25, timeDiff in seconds; x / 0 is Infinity, 0 / 0 NaN
Analyzer_isHighSpeed(last, current) ==
  LET dSq == haversineDistance(last, current)
      ticks == current.timestamp - last.timestamp
  IN IF ticks = 0 THEN dSq > 0
     ELSE IF ticks < 0 THEN FALSE
     ELSE Sq(MetersPerUnit) * dSq > Sq(HighSpeedThreshold * SecondsPerTick * ticks)

\* the 'drift' markers of originalPoints[i..]
RECURSIVE Analyzer_driftMarkers(_, _, _)
Analyzer_driftMarkers(st, original, i) ==
  IF i > Len(original) THEN << >>
  ELSE LET point == original[i]
       IN (IF Analyzer_findIsDrift(st, point) /\ st.basePoint # NoPoint
             THEN << [type |-> "drift",
                      position |-> [lat |-> point.lat, lng |-> point.lng],
                      info |-> [distance |-> calculateDistance(point, st.basePoint.point),
                                radius |-> st.basePoint.radius],
                      timestamp |-> point.timestamp] >>
             ELSE << >>)
          \o Analyzer_driftMarkers(st, original, i + 1)

\* the 'tunnel' and 'speed' markers of originalPoints[i..]; loc holds the
\* loop's locals inTunnel, inHighSpeed and localConsecutiveDriftCount
RECURSIVE Analyzer_sceneMarkers(_, _, _, _)
Analyzer_sceneMarkers(st, original, i, loc) ==
  IF i > Len(original) THEN << >>
  ELSE
    LET currentPoint == original[i]
        count == IF Analyzer_findIsDrift(st, currentPoint)
                   THEN loc.localConsecutiveDriftCount + 1 ELSE 0
        tunnel == count >= 3 /\ ~loc.inTunnel
        isFast == i >= 2 /\ Analyzer_isHighSpeed(original[i - 1], currentPoint)
        isLinear ==
          i >= 3 /\ Analyzer_AngleAbove150(original[i - 2],
                                           original[i - 1], currentPoint)
        speed == i >= 2 /\ isFast /\ isLinear /\ ~loc.inHighSpeed
        marker(type, info) ==
          [type |-> type,
           position |-> [lat |-> currentPoint.lat, lng |-> currentPoint.lng],
           info |-> info,
           timestamp |-> currentPoint.timestamp]
        loc2 == [inTunnel |-> count >= 3,
                 inHighSpeed |->
                   IF i < 2 THEN loc.inHighSpeed
                   ELSE IF speed THEN TRUE
                   ELSE IF ~isFast \/ ~isLinear THEN FALSE
                   ELSE loc.inHighSpeed,
                 localConsecutiveDriftCount |-> count]
    IN (IF tunnel THEN << marker("tunnel", count) >> ELSE << >>)
       \o (IF speed
             THEN << marker("speed",
                            [distance |-> haversineDistance(original[i - 1], currentPoint),
                             ticks |-> currentPoint.timestamp - original[i - 1].timestamp]) >>
             ELSE << >>)
       \o Analyzer_sceneMarkers(st, original, i + 1, loc2)

Analyzer_generateMarkers(st, original) ==
  (IF st.basePointRebuilds > 0 /\ st.basePoint # NoPoint
     THEN << [type |-> "rebuild",
              position |-> [latSum |-> st.basePoint.point.latSum,
                            lngSum |-> st.basePoint.point.lngSum,
                            n |-> st.basePoint.point.n],
              info |-> st.basePointRebuilds,
              timestamp |-> st.basePoint.createdAt] >>
          \o Analyzer_driftMarkers(st, original, 1)
     ELSE << >>)
  \o Analyzer_sceneMarkers(st, original, 1,
        [inTunnel |-> FALSE, inHighSpeed |-> FALSE, localConsecutiveDriftCount |-> 0])

\* a ratio a / b of two counters
Ratio(a, b) == [num |-> a, den |-> b]

\* the ProcessingResult built at the end of processTrajectory
Analyzer_result(st, original, locals, elapsed) ==
  [ originalPoints |-> original,
    processedPoints |-> locals.processedPoints,
    filteredPoints |-> locals.filteredPoints,
    statistics |->
      [ totalInputPoints |-> Len(original),
        validOutputPoints |-> Len(locals.processedPoints),
        filteredPointsCount |-> Len(locals.filteredPoints),
        discardedDriftPointsCount |-> st.driftCount,
        basePointRebuildsCount |-> st.basePointRebuilds,
        processingTimeMs |-> elapsed,
        filteringRate |-> IF Len(original) > 0
                            THEN Ratio(Len(locals.filteredPoints), Len(original))
                            ELSE Ratio(0, 1) ],
    markers |-> Analyzer_generateMarkers(st, original) ]

\* mutant: the package divides without testing totalInputPoints (0 / 0)
Package_processTrajectoryUnguarded(res, elapsed) ==
  [res EXCEPT !.statistics.processingTimeMs = elapsed,
              !.statistics.filteringRate =
                 Ratio(res.statistics.filteredPointsCount,
                       res.statistics.totalInputPoints)]

\* GPSAlgorithmPackage.processTrajectory: the algorithm's result with the
\* two statistics the package recomputes
Package_processTrajectory(res, elapsed) ==
  [res EXCEPT !.statistics.processingTimeMs = elapsed,
              !.statistics.filteringRate =
                 IF res.statistics.totalInputPoints > 0
                   THEN Ratio(res.statistics.filteredPointsCount,
                              res.statistics.totalInputPoints)
                   ELSE Ratio(0, 1)]

\* the call that took the analyzer from st to st2 ran handleConsecutiveDrift:
\* it rebuilt the base point or moved rejected fixes to the accepted list
Analyzer_Handled(st, st2) ==
  /\ st2.slidingWindow[Len(st2.slidingWindow)].isDrift
  /\ \/ st2.basePointRebuilds > st.basePointRebuilds
     \/ st2.driftCount <= st.driftCount

\* The outcomes of the rounding in calculateMinAngleInTriangle that matter
\* to processPoint(point): both when the call tests an exactly degenerate
\* triangle of three distinct fixes, one otherwise.
Roundings(st, point) ==
  LET buf == LastN(Append(st.consecutiveDriftPoints, point), DriftLimit(st))
      n == Len(buf)
  IN IF n >= 3 /\ calculateMinAngleInTriangle(buf[n - 2], buf[n - 1], buf[n], TRUE)
                   # calculateMinAngleInTriangle(buf[n - 2], buf[n - 1], buf[n], FALSE)
       THEN BOOLEAN ELSE {FALSE}

\* clock advances a call may see: the clock stops MaxElapsed after Epoch
Advances == 0..(Epoch + MaxElapsed - now)

\* processTrajectory's local lists before the call
NoLocals == [processedPoints |-> << >>, filteredPoints |-> << >>, startTime |-> 0]

\* no array has been handed to the simulator
SimulatorUnused ==
  /\ baseline = << >>
  /\ simulated = NoPoint
  /\ simOptions = NoPoint
  /\ simRuns = 0
  /\ driftConfigs = NoPoint

\* no GPSAlgorithmPackage has been constructed
ConfigUnused ==
  /\ packageConfig = NoPoint
  /\ configCall = NoPoint
  /\ configCalls = 0

\* no converter has been called
ParserUnused == parserCall = NoPoint

(* ------------------- streaming use of one detector --------------------- *)
\* the analyzer's configuration in the behaviours that do not use it
DefaultAnalyzerConfig ==
  [windowSize |-> 3, validityPeriod |-> validityPeriod, maxDriftSequence |-> 3]

Configs ==
  { [windowSize |-> w, validityPeriod |-> validityPeriod, maxDriftSequence |-> m] :
      w \in 1..MaxWindowSize, m \in 1..MaxDriftSequence }

Init ==
  /\ \E cfg \in Configs : gps = FreshProcessor(cfg)
  /\ now = Epoch
  /\ callCount = 0
  /\ lastPoint = NoPoint
  /\ lastResult = TRUE
  /\ pc = "idle"
  /\ originalPoints = << >>
  /\ filteredPoints = << >>
  /\ result = NoPoint
  /\ analyzer = Analyzer_reset(DefaultAnalyzerConfig)
  /\ driftRun = 0
  /\ readings = << >>
  /\ analyzerLocals = NoLocals
  /\ analyzerResult = NoPoint
  /\ packageResult = NoPoint
  /\ threw = FALSE
  /\ SimulatorUnused
  /\ ConfigUnused
  /\ ParserUnused

ProcessPoint ==
  /\ callCount < MaxCalls
  /\ \E pos \in Positions, dt \in Advances :
     \E rounding \in Roundings(gps, GPSPoint(pos, callCount + 1)) :
       /\ LET point == GPSPoint(pos, callCount + 1)
          IN \E r \in { processPoint(gps, point, now + dt, rounding) } :
             /\ gps' = r.st
             /\ lastResult' = r.ret
             /\ threw' = r.threw
             /\ lastPoint' = point
       /\ now' = now + dt
       /\ callCount' = callCount + 1
  /\ UNCHANGED <<batchVars, analyzer, driftRun, replayVars, simVars, configVars, parserVars>>

Next == ProcessPoint

Spec == Init /\ [][Next]_vars

(* ------------------- GPSProcessor.processTrajectory -------------------- *)
(* The argument is read one fix per iteration; its fixes are pairwise      *)
(* distinct (the timestamp of the i-th fix is i).                          *)
MaxTrajectory == 5       \* longest trajectory handed to processTrajectory

\* entry: the detector state is reset, the local list is empty
TrajectoryBegin ==
  /\ pc = "idle"
  /\ gps' = resetState(gps)
  /\ originalPoints' = << >>
  /\ filteredPoints' = << >>
  /\ pc' = "loop"
  /\ UNCHANGED <<now, callCount, lastPoint, lastResult, result, analyzer,
                 driftRun, replayVars, simVars, configVars, parserVars, threw>>

\* one iteration of `for (const point of originalPoints)`
TrajectoryStep ==
  /\ pc = "loop"
  /\ Len(originalPoints) < MaxTrajectory
  /\ \E pos \in Positions, dt \in Advances :
     \E rounding \in Roundings(gps, GPSPoint(pos, Len(originalPoints) + 1)) :
       /\ LET point == GPSPoint(pos, Len(originalPoints) + 1)
          IN \E r \in { processPoint(gps, point, now + dt, rounding) } :
             /\ gps' = r.st
             /\ lastResult' = r.ret
             /\ threw' = r.threw
             /\ lastPoint' = point
             /\ originalPoints' = Append(originalPoints, point)
             /\ filteredPoints' =
                  IF r.ret /\ ~r.threw THEN Append(filteredPoints, point)
                                      ELSE filteredPoints
             \* an exception leaves processTrajectory without a result
             /\ pc' = IF r.threw THEN "failed" ELSE pc
       /\ now' = now + dt
       /\ callCount' = callCount + 1
  /\ UNCHANGED <<result, analyzer, driftRun, replayVars, simVars, configVars, parserVars>>

\* the loop has consumed its argument: build the ProcessedResult
TrajectoryReturn ==
  /\ pc = "loop"
  /\ result' = [ originalPoints |-> originalPoints,
                 processedPoints |-> filteredPoints,
                 filteredPoints |-> filteredPoints ]
  /\ pc' = "done"
  /\ UNCHANGED <<gps, now, callCount, lastPoint, lastResult,
                 originalPoints, filteredPoints, analyzer, driftRun, replayVars, simVars, configVars, parserVars,
                 threw>>

NextTrajectory == TrajectoryBegin \/ TrajectoryStep \/ TrajectoryReturn

SpecTrajectory == Init /\ [][NextTrajectory]_vars

(* ----------------- streaming use of one analyzer ----------------------- *)
MaxAnalyzerCalls == 4    \* Analyzer processPoint calls in one behaviour
MaxAnalyzerWindow == 4   \* the analyzer's windowSize is drawn from 1..MaxAnalyzerWindow

AnalyzerConfigs ==
  { [windowSize |-> w, validityPeriod |-> validityPeriod, maxDriftSequence |-> m] :
      w \in 1..MaxAnalyzerWindow, m \in 1..MaxDriftSequence }

InitAnalyzer ==
  /\ \E cfg \in AnalyzerConfigs : analyzer = Analyzer_reset(cfg)
  /\ gps = FreshProcessor(DefaultAnalyzerConfig)
  /\ now = Epoch
  /\ callCount = 0
  /\ lastPoint = NoPoint
  /\ lastResult = TRUE
  /\ pc = "idle"
  /\ originalPoints = << >>
  /\ filteredPoints = << >>
  /\ result = NoPoint
  /\ driftRun = 0
  /\ readings = << >>
  /\ analyzerLocals = NoLocals
  /\ analyzerResult = NoPoint
  /\ packageResult = NoPoint
  /\ threw = FALSE
  /\ SimulatorUnused
  /\ ConfigUnused
  /\ ParserUnused

\* a fix is reported live: its timestamp is the clock reading at the call
AnalyzerProcessPoint ==
  /\ callCount < MaxAnalyzerCalls
  /\ \E pos \in Positions, dt \in Advances :
       /\ LET point == GPSPoint(pos, now + dt)
          IN \E r \in { Analyzer_processPoint(analyzer, point, now + dt) } :
             /\ analyzer' = r.st
             /\ lastResult' = r.ret
             /\ threw' = r.threw
             /\ lastPoint' = point
             /\ driftRun' = IF r.ret \/ Analyzer_Handled(analyzer, r.st)
                               THEN 0 ELSE driftRun + 1
       /\ now' = now + dt
       /\ callCount' = callCount + 1
  /\ UNCHANGED <<gps, batchVars, replayVars, simVars, configVars, parserVars>>

NextAnalyzer == AnalyzerProcessPoint

SpecAnalyzer == InitAnalyzer /\ [][NextAnalyzer]_vars

(* ------------- two detectors observing the same fixes ------------------ *)
(* A GPSProcessor and a GpsTrajectoryAnalyzer built with the same          *)
(* configuration; every fix is reported live and handed to both.           *)
DetectorConfigs ==
  { [windowSize |-> 1, validityPeriod |-> validityPeriod, maxDriftSequence |-> 1],
    [windowSize |-> 2, validityPeriod |-> validityPeriod, maxDriftSequence |-> 2] }

DetectorPositions == { <<0, 0>>, <<0, 2>>, <<0, 4>>, <<0, 8>> }

InitDetectors ==
  /\ \E cfg \in DetectorConfigs :
       gps = FreshProcessor(cfg) /\ analyzer = Analyzer_reset(cfg)
  /\ now = Epoch
  /\ callCount = 0
  /\ lastPoint = NoPoint
  /\ lastResult = TRUE
  /\ pc = "idle"
  /\ originalPoints = << >>
  /\ filteredPoints = << >>
  /\ result = NoPoint
  /\ driftRun = 0
  /\ readings = << >>
  /\ analyzerLocals = NoLocals
  /\ analyzerResult = NoPoint
  /\ packageResult = NoPoint
  /\ threw = FALSE
  /\ SimulatorUnused
  /\ ConfigUnused
  /\ ParserUnused

ProcessPointBoth ==
  /\ callCount < MaxCalls
  /\ \E pos \in DetectorPositions, dt \in Advances :
     \E rounding \in Roundings(gps, GPSPoint(pos, now + dt)) :
       /\ LET point == GPSPoint(pos, now + dt)
          IN \E r \in { processPoint(gps, point, now + dt, rounding) },
                ra \in { Analyzer_processPoint(analyzer, point, now + dt) } :
             /\ gps' = r.st
             /\ analyzer' = ra.st
             /\ lastResult' = r.ret
             /\ threw' = (r.threw \/ ra.threw)
             /\ lastPoint' = point
             /\ driftRun' = IF ra.ret \/ Analyzer_Handled(analyzer, ra.st)
                               THEN 0 ELSE driftRun + 1
       /\ now' = now + dt
       /\ callCount' = callCount + 1
  /\ UNCHANGED <<batchVars, replayVars, simVars, configVars, parserVars>>

NextDetectors == ProcessPointBoth

SpecDetectors == InitDetectors /\ [][NextDetectors]_vars

(* ---------------- processTrajectory on used detectors ------------------ *)
(* The two detectors are first used through processPoint, then each runs   *)
(* processTrajectory on the same fixes, possibly several times.            *)
MaxPrior == 3            \* processPoint calls made on the detectors directly
MaxReplay == 4           \* longest trajectory handed to processTrajectory

\* the positions of the fixes of a trajectory: three collinear places
ReplayPositions == { <<0, 0>>, <<0, 4>>, <<0, 8>> }

PriorCall ==
  /\ pc = "idle"
  /\ callCount < MaxPrior
  /\ ProcessPointBoth

\* entry of processTrajectory in both detectors
ReplayBegin ==
  /\ pc # "loop"
  /\ gps' = resetState(gps)
  /\ analyzer' = Analyzer_resetState(analyzer)
  /\ originalPoints' = << >>
  /\ filteredPoints' = << >>
  /\ analyzerLocals' = [processedPoints |-> << >>, filteredPoints |-> << >>,
                        startTime |-> now]
  /\ readings' = << >>
  /\ result' = NoPoint
  /\ analyzerResult' = NoPoint
  /\ packageResult' = NoPoint
  /\ pc' = "loop"
  /\ lastPoint' = NoPoint
  /\ lastResult' = TRUE
  /\ driftRun' = 0
  /\ threw' = FALSE
  /\ UNCHANGED <<now, callCount, simVars, configVars, parserVars>>

\* one iteration of the loop over the trajectory in both detectors
ReplayStep ==
  /\ pc = "loop"
  /\ Len(originalPoints) < MaxReplay
  /\ \E pos \in ReplayPositions, dt \in Advances :
     \E rounding \in Roundings(gps, GPSPoint(pos, now + dt)) :
       /\ LET point == GPSPoint(pos, now + dt)
          IN \E r \in { processPoint(gps, point, now + dt, rounding) },
                ra \in { Analyzer_processPoint(analyzer, point, now + dt) } :
             \E failed \in { r.threw \/ ra.threw } :
             /\ gps' = r.st
             /\ analyzer' = ra.st
             /\ lastResult' = r.ret
             /\ threw' = failed
             /\ lastPoint' = point
             /\ originalPoints' = Append(originalPoints, point)
             /\ readings' = Append(readings, [t |-> now + dt, rounding |-> rounding])
             /\ filteredPoints' =
                  IF r.ret /\ ~failed THEN Append(filteredPoints, point)
                                      ELSE filteredPoints
             /\ analyzerLocals' =
                  IF failed THEN analyzerLocals
                  ELSE IF ra.ret
                    THEN [analyzerLocals EXCEPT !.processedPoints = Append(@, point)]
                    ELSE [analyzerLocals EXCEPT !.filteredPoints = Append(@, point)]
             /\ pc' = IF failed THEN "failed" ELSE pc
       /\ now' = now + dt
  /\ UNCHANGED <<callCount, result, analyzerResult, packageResult, driftRun, simVars, configVars, parserVars>>

\* the loops are over: both detectors build their result, and
\* GPSAlgorithmPackage.processTrajectory, through which the analyzer was
\* called, builds its own from the analyzer's
ReplayReturn ==
  /\ pc = "loop"
  /\ \E elapsed \in { now - analyzerLocals.startTime } :
     \E res \in { Analyzer_result(analyzer, originalPoints, analyzerLocals, elapsed) } :
       /\ analyzerResult' = res
       /\ packageResult' = Package_processTrajectory(res, elapsed)
  /\ result' = [ originalPoints |-> originalPoints,
                 processedPoints |-> filteredPoints,
                 filteredPoints |-> filteredPoints ]
  /\ pc' = "done"
  /\ UNCHANGED <<gps, analyzer, now, callCount, lastPoint, lastResult,
                 originalPoints, filteredPoints, driftRun, readings,
                 analyzerLocals, threw, simVars, configVars, parserVars>>

NextReplay == PriorCall \/ ReplayBegin \/ ReplayStep \/ ReplayReturn

SpecReplay == InitDetectors /\ [][NextReplay]_vars

(* --------------------------- anomaly simulator ------------------------- *)
(* GPSSimulationGenerator.generateSimulatedData for options whose static,  *)
(* moving and speed counts are 0 and whose tunnelCount is 0 or 1. A        *)
(* GPSPoint object is a record; isDeleted = FALSE also stands for an       *)
(* object without that property. The array handed to the simulator is      *)
(* copied shallowly, so its objects are the caller's.                      *)
MaxBaseline == 3         \* longest baseline enumerated fix by fix
MaxRuns == 2             \* generateSimulatedData calls on one baseline

Min2(a, b) == IF a <= b THEN a ELSE b

SimulationOptions ==
  { [staticDriftCount |-> 0, movingDriftCount |-> 0, tunnelCount |-> k,
     speedScenarioCount |-> 0] : k \in {0, 1} }

\* Math.floor(Math.random() * (dataLength * tenths / 10)); 0 when
\* dataLength is 0
FloorRandom(tenths, dataLength) ==
  IF dataLength = 0 THEN {0}
  ELSE 0 .. ((tenths * dataLength + 9) \div 10 - 1)

\* Math.floor(Math.random() * (dataLength * 0.8))
StaticStarts(dataLength) == FloorRandom(8, dataLength)

\* Math.floor(Math.random() * (dataLength * 0.6)) + Math.floor(dataLength * 0.2)
MovingStarts(dataLength) ==
  { s + (2 * dataLength) \div 10 : s \in FloorRandom(6, dataLength) }

\* Math.floor(Math.random() * (dataLength * 0.7))
TunnelStarts(dataLength) == FloorRandom(7, dataLength)

\* Math.floor(Math.random() * (dataLength * 0.5)) + Math.floor(dataLength * 0.3)
SpeedStarts(dataLength) ==
  { s + (3 * dataLength) \div 10 : s \in FloorRandom(5, dataLength) }

\* Math.floor(Math.random() * 15) + 5
StaticDurations == 5 .. 19

\* Math.floor(Math.random() * 10) + 5
MovingDurations == 5 .. 14

\* Math.floor(Math.random() * 20) + 10
TunnelDurations == 10 .. 29

\* Math.floor(Math.random() * 15) + 10
SpeedDurations == 10 .. 24

\* Math.floor(Math.random() * 11) + 10
PointsToRemove == 10 .. 20

\* the configs one iteration of a loop can push (distance, direction and
\* intensity are drawn too; no code modelled here reads them)
PushedBy(type, starts, durations, dataLength) ==
  { [type |-> type, startIndex |-> s, endIndex |-> Min2(s + d, dataLength - 1)] :
      s \in starts, d \in durations }

\* the outcomes of the draws of generateDriftConfigs: what each of its four
\* loops pushes
DrawOutcomes(dataLength, options) ==
  [ static : [ 1..options.staticDriftCount ->
                 PushedBy("static", StaticStarts(dataLength), StaticDurations,
                          dataLength) ],
    moving : [ 1..options.movingDriftCount ->
                 PushedBy("moving", MovingStarts(dataLength), MovingDurations,
                          dataLength) ],
    tunnel : [ 1..options.tunnelCount ->
                 PushedBy("tunnel", TunnelStarts(dataLength), TunnelDurations,
                          dataLength) ],
    speed : [ 1..options.speedScenarioCount ->
                 PushedBy("speed", SpeedStarts(dataLength), SpeedDurations,
                          dataLength) ] ]

\* configs.sort((a, b) => a.startIndex - b.startIndex): the sort is stable
RECURSIVE InsertByStart(_, _)
InsertByStart(s, x) ==
  IF s = << >> THEN << x >>
  ELSE IF s[Len(s)].startIndex <= x.startIndex THEN Append(s, x)
  ELSE Append(InsertByStart(SubSeq(s, 1, Len(s) - 1), x), s[Len(s)])

RECURSIVE SortByStart(_)
SortByStart(s) ==
  IF s = << >> THEN << >>
  ELSE InsertByStart(SortByStart(SubSeq(s, 1, Len(s) - 1)), s[Len(s)])

\* the loop that adjusts overlapping configs, from (1-based) position i on
adjustOverlaps(configs, i, dataLength) ==
  LET RECURSIVE Loop(_, _)
      Loop(cs, k) ==
        IF k > Len(cs) THEN cs
        ELSE IF cs[k].startIndex < cs[k - 1].endIndex
          THEN LET startIndex == cs[k - 1].endIndex + 1
                   endIndex == IF startIndex >= cs[k].endIndex
                                 THEN Min2(startIndex + 10, dataLength - 1)
                                 ELSE cs[k].endIndex
               IN Loop([cs EXCEPT ![k] = [@ EXCEPT !.startIndex = startIndex,
                                                   !.endIndex = endIndex]], k + 1)
          ELSE Loop(cs, k + 1)
  IN Loop(configs, i)

\* generateDriftConfigs for one outcome of its draws
generateDriftConfigs(dataLength, options, draws) ==
  LET configs == draws.static \o draws.moving \o draws.tunnel \o draws.speed
  IN SelectSeq(adjustOverlaps(SortByStart(configs), 2, dataLength),
               LAMBDA c : c.startIndex < c.endIndex)

\* the start indexes of the configs generateDriftConfigs can return, over
\* all outcomes of its draws (applyTunnelEffect reads startIndex only)
ConfigStarts(dataLength, options) ==
  { [i \in DOMAIN configs |-> configs[i].startIndex] :
      configs \in { generateDriftConfigs(dataLength, options, draws) :
                      draws \in DrawOutcomes(dataLength, options) } }

\* applyTunnelEffect on the pair sim = (points, markers)
applyTunnelEffect(sim, startIndex, pointsToRemove) ==
  IF startIndex >= Len(sim.points) THEN sim
  ELSE LET endIndex == Min2(startIndex + pointsToRemove, Len(sim.points))
           first == sim.points[startIndex + 1]
       IN [ points |->
              [i \in 1..Len(sim.points) |->
                 IF startIndex <= i - 1 /\ i - 1 < endIndex
                   THEN [sim.points[i] EXCEPT !.isDeleted = TRUE]
                   ELSE sim.points[i]],
            markers |->
              Append(sim.markers,
                     [type |-> "tunnel",
                      position |-> [lat |-> first.lat, lng |-> first.lng],
                      info |-> endIndex - startIndex,
                      timestamp |-> first.timestamp]) ]

\* s, sorted by timestamp, with x put behind the elements not later than x
InsertByTimestamp(s, x) ==
  LET k == Cardinality({ i \in 1..Len(s) : s[i].timestamp <= x.timestamp })
  IN SubSeq(s, 1, k) \o << x >> \o SubSeq(s, k + 1, Len(s))

\* array.sort((a, b) => a.timestamp - b.timestamp), a stable sort
RECURSIVE SortByTimestamp(_)
SortByTimestamp(s) ==
  IF Len(s) <= 1 THEN s
  ELSE InsertByTimestamp(SortByTimestamp(SubSeq(s, 1, Len(s) - 1)), s[Len(s)])

\* the key `${lat},${lng},${timestamp}`
PointKey(p) == <<p.lat, p.lng, p.timestamp>>

\* Array.from(uniquePoints.values()): a Map keeps a key at the place of its
\* first set() and the value of its last
RECURSIVE uniquePoints(_)
uniquePoints(s) ==
  IF s = << >> THEN s
  ELSE LET front == uniquePoints(SubSeq(s, 1, Len(s) - 1))
           last == s[Len(s)]
           same == { i \in DOMAIN front : PointKey(front[i]) = PointKey(last) }
       IN IF same = {} THEN Append(front, last)
          ELSE [front EXCEPT ![CHOOSE i \in same : TRUE] = last]

\* mutant: the Map that removes duplicate keys is left out
sortedWithDuplicates(s) ==
  IF \A i \in 1..(Len(s) - 1) : s[i].timestamp < s[i + 1].timestamp THEN s
  ELSE SortByTimestamp(s)

\* the filter, the sort and the Map of generateSimulatedData; they return
\* an array in strictly increasing timestamp order as it is
sortedUnique(s) ==
  IF \A i \in 1..(Len(s) - 1) : s[i].timestamp < s[i + 1].timestamp THEN s
  ELSE uniquePoints(SortByTimestamp(s))

\* generateSimulatedData(originalData, options) for the config start
\* indexes `starts` and the draw pointsToRemove of applyTunnelEffect:
\* the objects of originalData after the call, and the value returned
generateSimulatedData(originalData, starts, pointsToRemove) ==
  IF Len(originalData) = 0
    THEN [data |-> originalData, points |-> << >>, markers |-> << >>]
  ELSE
    LET copy == [points |-> originalData, markers |-> << >>]
        sim == IF starts = << >> THEN copy
               ELSE applyTunnelEffect(copy, starts[1], pointsToRemove)
        kept == SelectSeq(sim.points, LAMBDA p : ~p.isDeleted)
    IN [ data |-> sim.points,
         points |-> sortedUnique(kept),
         markers |-> SortByTimestamp(sim.markers) ]

\* a straight line of 100 fixes with pairwise distinct timestamps
StraightBaseline ==
  [i \in 1..100 |-> [lat |-> 0, lng |-> i, timestamp |-> i, isDeleted |-> FALSE]]

\* the fixes of the short baselines
BaselineFixes ==
  { [lat |-> 0, lng |-> x, timestamp |-> t, isDeleted |-> FALSE] :
      x \in {0, 1}, t \in {1, 2} }

\* the short baselines: any order, duplicates allowed
ShortBaselines ==
  UNION { [1..n -> BaselineFixes] : n \in 0..MaxBaseline }

InitSimulator ==
  /\ gps = FreshProcessor([windowSize |-> 1, validityPeriod |-> validityPeriod,
                           maxDriftSequence |-> 1])
  /\ analyzer = Analyzer_reset(DefaultAnalyzerConfig)
  /\ now = Epoch
  /\ callCount = 0
  /\ lastPoint = NoPoint
  /\ lastResult = TRUE
  /\ pc = "idle"
  /\ originalPoints = << >>
  /\ filteredPoints = << >>
  /\ result = NoPoint
  /\ driftRun = 0
  /\ readings = << >>
  /\ analyzerLocals = NoLocals
  /\ analyzerResult = NoPoint
  /\ packageResult = NoPoint
  /\ threw = FALSE
  /\ baseline \in ShortBaselines \cup {StraightBaseline}
  /\ simulated = NoPoint
  /\ simOptions = NoPoint
  /\ simRuns = 0
  /\ driftConfigs = NoPoint
  /\ ConfigUnused
  /\ ParserUnused

\* one generateSimulatedData(baseline, options) call
Simulate ==
  /\ simRuns < MaxRuns
  /\ \E options \in SimulationOptions :
     \E starts \in ConfigStarts(Len(baseline), options),
        pointsToRemove \in (IF options.tunnelCount = 0 THEN {10} ELSE PointsToRemove) :
       \E r \in { generateSimulatedData(baseline, starts, pointsToRemove) } :
          /\ baseline' = r.data
          /\ simulated' = [points |-> r.points, markers |-> r.markers]
          /\ simOptions' = options
  /\ simRuns' = simRuns + 1
  /\ UNCHANGED <<detectorVars, configVars, parserVars, driftConfigs>>

NextSimulator == Simulate

SpecSimulator == InitSimulator /\ [][NextSimulator]_vars

(* ------------------------ configuration (C27) -------------------------- *)
(* GPSAlgorithmPackage and the GpsTrajectoryAnalyzer it wraps each hold a  *)
(* configuration object.  A configuration is a function from field names   *)
(* to values; booleans and log levels are kept as numbers (false = 0,      *)
(* 'debug' = 0, 'info' = 1).  A partial configuration is a function on     *)
(* some of the field names; it may carry the value `undefined`.            *)
MaxConfigCalls == 3      \* configuration calls in one behaviour

ConfigFields ==
  { "windowSize", "validityPeriod", "maxDriftSequence", "driftThresholdMultiplier",
    "linearMotionAngleThreshold", "earthRadius", "enableLogging", "logLevel" }

DEFAULT_CONFIG ==
  [ windowSize |-> 10,
    validityPeriod |-> 15000,
    maxDriftSequence |-> 10,
    driftThresholdMultiplier |-> 2,
    linearMotionAngleThreshold |-> 30,
    earthRadius |-> 6371000,
    enableLogging |-> 0,
    logLevel |-> 1 ]

Undefined == -1          \* stands for the JavaScript value `undefined`

\* the fields the callers supply, each with a value other than its default
SuppliedValues == [ windowSize |-> 5, maxDriftSequence |-> 3, logLevel |-> 0 ]

\* partial configurations handed to the constructors and setters
Partials ==
  UNION { [ fields -> {0, 1} ] : fields \in SUBSET (DOMAIN SuppliedValues) }

PartialOf(choice) ==
  [ f \in DOMAIN choice |-> IF choice[f] = 1 THEN SuppliedValues[f] ELSE Undefined ]

\* mutant: the fields that are not supplied fall back to their defaults
SpreadOverDefaults(base, partial) ==
  [ f \in ConfigFields |->
      IF f \in DOMAIN partial THEN partial[f] ELSE DEFAULT_CONFIG[f] ]

\* { ...base, ...partial }: every own property of `partial`, an undefined
\* one included, replaces that of `base`
Spread(base, partial) ==
  [ f \in ConfigFields |-> IF f \in DOMAIN partial THEN partial[f] ELSE base[f] ]

\* GpsTrajectoryAnalyzer.setConfig
Analyzer_setConfig(st, config) == [st EXCEPT !.config = Spread(st.config, config)]

\* new GpsTrajectoryAnalyzer(config)
InitConfig ==
  /\ \E choice \in Partials :
       analyzer = Analyzer_reset(Spread(DEFAULT_CONFIG, PartialOf(choice)))
  /\ gps = FreshProcessor(DefaultAnalyzerConfig)
  /\ now = Epoch
  /\ callCount = 0
  /\ lastPoint = NoPoint
  /\ lastResult = TRUE
  /\ pc = "idle"
  /\ originalPoints = << >>
  /\ filteredPoints = << >>
  /\ result = NoPoint
  /\ driftRun = 0
  /\ readings = << >>
  /\ analyzerLocals = NoLocals
  /\ analyzerResult = NoPoint
  /\ packageResult = NoPoint
  /\ threw = FALSE
  /\ SimulatorUnused
  /\ ConfigUnused
  /\ ParserUnused

ConfigFrame ==
  UNCHANGED <<gps, now, callCount, lastPoint, lastResult, batchVars, driftRun,
              replayVars, threw, simVars, parserVars>>

\* new GPSAlgorithmPackage(analyzer, undefined, undefined, config)
PackageConstruct ==
  /\ packageConfig = NoPoint
  /\ configCalls < MaxConfigCalls
  /\ \E choice \in Partials :
     \E config \in { Spread(DEFAULT_CONFIG, PartialOf(choice)) } :
       /\ packageConfig' = config
       /\ analyzer' = Analyzer_setConfig(analyzer, config)
       /\ configCall' = [op |-> "constructor", arg |-> PartialOf(choice)]
  /\ configCalls' = configCalls + 1
  /\ ConfigFrame

\* package.updateConfig(newConfig)
PackageUpdateConfig ==
  /\ packageConfig # NoPoint
  /\ configCalls < MaxConfigCalls
  /\ \E choice \in Partials :
     \E config \in { Spread(packageConfig, PartialOf(choice)) } :
       /\ packageConfig' = config
       /\ analyzer' = Analyzer_setConfig(analyzer, config)
       /\ configCall' = [op |-> "updateConfig", arg |-> PartialOf(choice)]
  /\ configCalls' = configCalls + 1
  /\ ConfigFrame

\* package.resetConfig()
PackageResetConfig ==
  /\ packageConfig # NoPoint
  /\ configCalls < MaxConfigCalls
  /\ packageConfig' = DEFAULT_CONFIG
  /\ analyzer' = Analyzer_setConfig(analyzer, DEFAULT_CONFIG)
  /\ configCall' = [op |-> "resetConfig", arg |-> << >>]
  /\ configCalls' = configCalls + 1
  /\ ConfigFrame

\* analyzer.setConfig(config), called on the analyzer directly
AnalyzerSetConfig ==
  /\ configCalls < MaxConfigCalls
  /\ \E choice \in Partials :
       /\ analyzer' = Analyzer_setConfig(analyzer, PartialOf(choice))
       /\ configCall' = [op |-> "setConfig", arg |-> PartialOf(choice)]
  /\ configCalls' = configCalls + 1
  /\ UNCHANGED packageConfig
  /\ ConfigFrame

NextConfig ==
  \/ PackageConstruct
  \/ PackageUpdateConfig
  \/ PackageResetConfig
  \/ AnalyzerSetConfig

SpecConfig == InitConfig /\ [][NextConfig]_vars

(* ------------------ generateDriftConfigs alone (C28) ------------------- *)
MaxDataLength == 10      \* longest dataLength handed to generateDriftConfigs
MaxPerType == 1          \* largest count of anomalies of one type

DriftOptions ==
  [ staticDriftCount : 0..MaxPerType, movingDriftCount : 0..MaxPerType,
    tunnelCount : 0..MaxPerType, speedScenarioCount : 0..MaxPerType ]

InitDriftConfigs ==
  /\ gps = FreshProcessor(DefaultAnalyzerConfig)
  /\ analyzer = Analyzer_reset(DefaultAnalyzerConfig)
  /\ now = Epoch
  /\ callCount = 0
  /\ lastPoint = NoPoint
  /\ lastResult = TRUE
  /\ pc = "idle"
  /\ originalPoints = << >>
  /\ filteredPoints = << >>
  /\ result = NoPoint
  /\ driftRun = 0
  /\ readings = << >>
  /\ analyzerLocals = NoLocals
  /\ analyzerResult = NoPoint
  /\ packageResult = NoPoint
  /\ threw = FALSE
  /\ SimulatorUnused
  /\ ConfigUnused
  /\ ParserUnused

\* the generateDriftConfigs(dataLength, options) call
GenerateDriftConfigs ==
  /\ driftConfigs = NoPoint
  /\ \E dataLength \in 0..MaxDataLength, options \in DriftOptions :
     \E draws \in DrawOutcomes(dataLength, options) :
       driftConfigs' = [ dataLength |-> dataLength,
                         options |-> options,
                         configs |-> generateDriftConfigs(dataLength, options, draws) ]
  /\ UNCHANGED <<detectorVars, configVars, parserVars, baseline, simulated, simOptions, simRuns>>

NextDriftConfigs == GenerateDriftConfigs

SpecDriftConfigs == InitDriftConfigs /\ [][NextDriftConfigs]_vars

(* ----------------- the simulator on short baselines -------------------- *)
\* the baseline is one of the short ones: in any order, with duplicates
InitShortBaselines ==
  /\ InitSimulator
  /\ baseline \in ShortBaselines

SpecShortBaselines == InitShortBaselines /\ [][NextSimulator]_vars

(* ----------------------- properties: helpers --------------------------- *)
\* a step of the behaviour is one processPoint call
IsCall == callCount' = callCount + 1

\* the drift buffer as the drift path leaves it after pushing `point`
Buffered(st, point) ==
  LastN(Append(st.consecutiveDriftPoints, point), st.config.maxDriftSequence)

\* the call about to be made reaches the drift test and the fix is a candidate
DriftCandidateCall ==
  /\ IsCall
  /\ Len(gps.slidingWindow) >= gps.config.windowSize
  /\ ~(now' - gps.lastBasePointTime > gps.config.validityPeriod)
  /\ isDriftPoint(gps, lastPoint')

Far(p) == p.lat = 0 /\ p.lng = 8

(* ----------------------------------------------------------------------- *)
(* C1: the result of processTrajectory(T) partitions T: every fix of T is  *)
(* in exactly one of result.processedPoints and result.filteredPoints.     *)
C1_Partition ==
  pc = "done" =>
    \A i \in 1..Len(result.originalPoints) :
      LET f == result.originalPoints[i]
      IN (f \in Range(result.processedPoints)) # (f \in Range(result.filteredPoints))

(* C2: after each processPoint call the sliding window holds at most      *)
(* windowSize fixes, whatever the relation of maxDriftSequence to          *)
(* windowSize.                                                             *)
C2_WindowBound == Len(gps.slidingWindow) <= gps.config.windowSize

(* C3: after each processPoint call the consecutive-drift buffer holds at  *)
(* most maxDriftSequence fixes.                                            *)
C3_DriftBound == Len(gps.consecutiveDriftPoints) <= gps.config.maxDriftSequence

C3_Witness ==
  /\ gps.config.maxDriftSequence = 3
  /\ Len(gps.consecutiveDriftPoints) = 2
  /\ lastResult = FALSE

(* C4: from a fresh detector the first windowSize calls are all accepted,  *)
(* nothing is discarded, and the base point is absent before the W-th call *)
(* and built by the W-th call, at the time of that call.                   *)
C4_WarmupAccepts ==
  callCount <= gps.config.windowSize =>
    /\ lastResult = TRUE
    /\ Len(gps.validPoints) = callCount
    /\ gps.slidingWindow = gps.validPoints
    /\ gps.discardedDriftPointsCount = 0
    /\ gps.basePointRebuildsCount = 0
    /\ (gps.basePoint # NoPoint) <=> (callCount = gps.config.windowSize)
    /\ (callCount = gps.config.windowSize) => (gps.lastBasePointTime = now)

C4_Witness ==
  /\ gps.config.windowSize = 2
  /\ callCount = 2
  /\ gps.validPoints[1].lng = 0
  /\ Far(gps.validPoints[2])
  /\ gps.basePoint # NoPoint

(* C5: from a reset analyzer the first windowSize fixes passed to          *)
(* processPoint are all accepted, whatever their positions.                *)
C5_AnalyzerWarmup ==
  callCount <= analyzer.config.windowSize =>
    /\ lastResult = TRUE
    /\ Len(analyzer.validPoints) = callCount

(* C6: a drift candidate on which the linear-motion test cannot succeed is *)
(* rejected while the buffer it joins holds fewer than maxDriftSequence    *)
(* fixes; the candidate that makes it hold maxDriftSequence is accepted,   *)
(* the window becomes exactly those buffered fixes, the buffer is emptied, *)
(* the rebuild counter grows by 1 and the fix is the last rebuild position.*)
C6_ForcedRebuild ==
  [][ ( /\ DriftCandidateCall
        /\ \A r \in BOOLEAN : ~isLinearMotion(gps, Buffered(gps, lastPoint'), r) )
      => LET buf == Buffered(gps, lastPoint')
             M == gps.config.maxDriftSequence
         IN IF Len(buf) < M
              THEN /\ lastResult' = FALSE
                   /\ gps'.validPoints = gps.validPoints
                   /\ gps'.consecutiveDriftPoints = buf
                   /\ gps'.basePointRebuildsCount = gps.basePointRebuildsCount
              ELSE /\ lastResult' = TRUE
                   /\ Len(buf) = M
                   /\ gps'.slidingWindow = buf
                   /\ gps'.consecutiveDriftPoints = << >>
                   /\ gps'.validPoints = Append(gps.validPoints, lastPoint')
                   /\ gps'.basePointRebuildsCount = gps.basePointRebuildsCount + 1
                   /\ gps'.basePointRebuildPositions
                        = Append(gps.basePointRebuildPositions, lastPoint')
    ]_vars

C6_Witness ==
  /\ gps.config.maxDriftSequence = 3
  /\ callCount = gps.config.windowSize + 3
  /\ lastResult = TRUE
  /\ gps.discardedDriftPointsCount = 2
  /\ gps.basePointRebuildsCount = 1
  /\ Len(gps.slidingWindow) = 3
  /\ gps.slidingWindow[3] = lastPoint
  /\ Len(gps.validPoints) = gps.config.windowSize + 1

(* C7: a drift candidate whose buffer then holds >= 3 fixes, the last three *)
(* with minimum angle below the threshold and within 5*K*radius of the     *)
(* base point, is accepted; all buffered fixes join the accepted list and  *)
(* the window (oldest evicted first), the buffer is emptied, the base      *)
(* point is rebuilt from the new window at the time of the call, the       *)
(* rebuild counter grows by 1 and the fix is the last rebuild position.    *)
C7_LinearRecovery ==
  [][ LET buf == Buffered(gps, lastPoint')
          n == Len(buf)
      IN ( /\ DriftCandidateCall
           /\ n >= 3
           /\ \A r \in BOOLEAN :
                AngleBelowThreshold(
                  calculateMinAngleInTriangle(buf[n - 2], buf[n - 1], buf[n], r))
           /\ \A i \in (n - 2)..n :
                haversineDistanceToBase(buf[i], gps.basePoint)
                  <= gps.basePointRadius
                       * Sq(LinearDistanceFactor * driftThresholdMultiplier) )
         => /\ lastResult' = TRUE
            /\ gps'.validPoints = gps.validPoints \o buf
            /\ gps'.slidingWindow = LastN(gps.slidingWindow \o buf, Len(gps.slidingWindow))
            /\ gps'.consecutiveDriftPoints = << >>
            /\ gps'.basePoint = calculateMedianPoint(gps'.slidingWindow, now')
            /\ gps'.basePointRadius = calculateBasePointRadius(gps', gps'.basePoint)
            /\ gps'.lastBasePointTime = now'
            /\ gps'.basePointRebuildsCount = gps.basePointRebuildsCount + 1
            /\ gps'.basePointRebuildPositions
                 = Append(gps.basePointRebuildPositions, lastPoint')
    ]_vars

C7_Witness ==
  /\ callCount = gps.config.windowSize + 3
  /\ lastResult = TRUE
  /\ Len(gps.validPoints) = callCount
  /\ gps.basePointRebuildsCount = 1
  /\ gps.basePointRebuildPositions = << lastPoint >>
  /\ gps.discardedDriftPointsCount = 2
  /\ gps.consecutiveDriftPoints = << >>

(* C8: after warmup and three drift candidates of which the third triggers *)
(* the linear-motion recovery (so that all fixes are accepted and the      *)
(* third is the only rebuild position), the discarded counter is 0 and the *)
(* rebuild counter is 1.                                                   *)
C8_RecoveryAdjustsRejected ==
  ( /\ callCount = gps.config.windowSize + 3
    /\ gps.config.maxDriftSequence >= 3
    /\ Len(gps.validPoints) = callCount
    /\ gps.basePointRebuildPositions = << lastPoint >> )
  => /\ getStatus(gps, now).discardedDriftPointsCount = 0
     /\ getStatus(gps, now).basePointRebuildsCount = 1

(* C9: a call made with a full window more than validityPeriod after the   *)
(* base point was last built is accepted whatever the fix's position, the  *)
(* base point is dropped, the window becomes <<fix>>, the buffer is        *)
(* emptied; and while the window then refills every call is accepted.      *)
C9_ExpiryRestart ==
  [][ /\ ( /\ IsCall
           /\ Len(gps.slidingWindow) >= gps.config.windowSize
           /\ now' - gps.lastBasePointTime > gps.config.validityPeriod )
         => /\ lastResult' = TRUE
            /\ gps'.basePoint = NoPoint
            /\ gps'.slidingWindow = << lastPoint' >>
            /\ gps'.consecutiveDriftPoints = << >>
            /\ gps'.validPoints = Append(gps.validPoints, lastPoint')
      /\ ( /\ IsCall
           /\ gps.basePoint = NoPoint
           /\ Len(gps.slidingWindow) < gps.config.windowSize )
         => /\ lastResult' = TRUE
            /\ gps'.slidingWindow = Append(gps.slidingWindow, lastPoint')
            /\ gps'.validPoints = Append(gps.validPoints, lastPoint')
    ]_vars

C9_Witness ==
  /\ gps.config.windowSize = 2
  /\ callCount = 4
  /\ Len(gps.validPoints) = 4
  /\ gps.validPoints[1].lng = 0
  /\ gps.validPoints[2].lng = 2
  /\ Far(gps.validPoints[3])
  /\ gps.basePointRebuildsCount = 0
  /\ gps.slidingWindow = << gps.validPoints[3], gps.validPoints[4] >>
  /\ gps.basePoint # NoPoint

(* C10: right after a call that increments the rebuild counter, the status *)
(* reports a base point whose age is 0.                                    *)
C10_PostRebuildFresh ==
  [][ gps'.basePointRebuildsCount = gps.basePointRebuildsCount + 1
      => /\ getStatus(gps', now').hasBasePoint
         /\ getStatus(gps', now').basePointAge = 0
    ]_vars

(* C11: a base point is present exactly when at least windowSize fixes     *)
(* have been accepted since the last reset or invalidation (expiry or      *)
(* forced rebuild).  Those fixes are the ones the window holds: warmup     *)
(* appends to it, an expiry restarts it at the accepted fix, a forced      *)
(* rebuild seeds it from the drift buffer.                                 *)
C11_BasePresence ==
  (gps.basePoint # NoPoint) <=> (Len(gps.slidingWindow) >= gps.config.windowSize)

(* C12: in the analyzer, consecutive-drift handling (linear-motion         *)
(* analysis or base-point rebuild) runs in a call exactly when that call   *)
(* rejects the maxDriftSequence-th consecutive fix, and not earlier.       *)
C12_HandlingAtM ==
  [][ (IsCall /\ lastResult' = FALSE)
      => ( Analyzer_Handled(analyzer, analyzer')
             <=> driftRun + 1 = analyzer.config.maxDriftSequence )
    ]_vars

(* C13: across processPoint calls without reset the rebuild counter of     *)
(* each detector never decreases and never exceeds the number of accepted  *)
(* plus the number of rejected fixes it reports.                           *)
C13_RebuildCounter ==
  [][ IsCall =>
      LET g == getStatus(gps, now)
          g2 == getStatus(gps', now')
          a == Analyzer_getStatus(analyzer, now).statistics
          a2 == Analyzer_getStatus(analyzer', now').statistics
      IN /\ g2.basePointRebuildsCount >= g.basePointRebuildsCount
         /\ g2.basePointRebuildsCount
              <= g2.validPointsCount + g2.discardedDriftPointsCount
         /\ a2.basePointRebuildsCount >= a.basePointRebuildsCount
         /\ a2.basePointRebuildsCount
              <= a2.validOutputPoints + a2.filteredPointsCount
    ]_vars

C13_Witness ==
  /\ gps.basePointRebuildsCount >= 1
  /\ analyzer.basePointRebuilds >= 1
  /\ gps.discardedDriftPointsCount >= 1

(* C15: no processPoint call of either detector throws: every call returns *)
(* accepted (true) or rejected (false), and the median-point and centroid  *)
(* routines are never reached with an empty set.                           *)
C15_NoThrow ==
  /\ threw = FALSE
  /\ lastResult \in BOOLEAN

C15_Witness ==
  /\ callCount >= 4
  /\ gps.basePoint # NoPoint
  /\ analyzer.basePoint # NoPoint
  /\ gps.basePointRebuildsCount >= 1
  /\ analyzer.basePointRebuilds >= 1
  /\ threw = FALSE


(* ------------------- replay after reset (C14, C16) --------------------- *)
\* the fixes a GPSProcessor in state st accepts out of points[i..], fed
\* one by one with the clock readings and roundings rds
RECURSIVE AcceptedFrom(_, _, _, _)
AcceptedFrom(st, points, rds, i) ==
  IF i > Len(points) THEN << >>
  ELSE LET r == processPoint(st, points[i], rds[i].t, rds[i].rounding)
       IN (IF r.ret THEN << points[i] >> ELSE << >>)
          \o AcceptedFrom(r.st, points, rds, i + 1)

\* the analyzer state and the two lists after feeding points[i..] to an
\* analyzer in state st
RECURSIVE AnalyzerFrom(_, _, _, _, _)
AnalyzerFrom(st, points, rds, i, locals) ==
  IF i > Len(points) THEN [st |-> st, locals |-> locals]
  ELSE LET r == Analyzer_processPoint(st, points[i], rds[i].t)
       IN AnalyzerFrom(r.st, points, rds, i + 1,
            IF r.ret THEN [locals EXCEPT !.processedPoints = Append(@, points[i])]
                     ELSE [locals EXCEPT !.filteredPoints = Append(@, points[i])])

\* markers without their timestamps
WithoutTimestamps(markers) ==
  [i \in DOMAIN markers |->
     [type |-> markers[i].type, position |-> markers[i].position,
      info |-> markers[i].info]]

\* C14: whatever processPoint or processTrajectory calls were made before, a
\* processTrajectory(T) that has returned gives the accepted list, rejected
\* list and markers (timestamps aside) that a newly constructed detector
\* with the same configuration gives on T under the same clock readings.
C14_ReplayDeterminism ==
  pc = "done" =>
    \A accepted \in { AcceptedFrom(FreshProcessor(gps.config), originalPoints,
                                   readings, 1) },
       a \in { AnalyzerFrom(Analyzer_reset(analyzer.config), originalPoints,
                            readings, 1, NoLocals) } :
      \A expected \in { Analyzer_result(a.st, originalPoints, a.locals, 0) } :
        /\ result.originalPoints = originalPoints
        /\ result.processedPoints = accepted
        /\ result.filteredPoints = accepted
        /\ analyzerResult.originalPoints = originalPoints
        /\ analyzerResult.processedPoints = expected.processedPoints
        /\ analyzerResult.filteredPoints = expected.filteredPoints
        /\ WithoutTimestamps(analyzerResult.markers)
             = WithoutTimestamps(expected.markers)
        /\ packageResult.originalPoints = originalPoints
        /\ packageResult.processedPoints = expected.processedPoints
        /\ packageResult.filteredPoints = expected.filteredPoints
        /\ WithoutTimestamps(packageResult.markers)
             = WithoutTimestamps(expected.markers)

\* a replay of four fixes, one of them rejected by the analyzer, on detectors
\* that had processed three fixes before
C14_Witness ==
  /\ pc = "done"
  /\ Len(originalPoints) >= 4
  /\ callCount >= 3
  /\ Len(analyzerResult.filteredPoints) >= 1

\* C16: processTrajectory([]) returns empty lists, no markers, and zero
\* counts and filtering rate, from the analyzer directly and through the
\* package, whatever the analyzer had processed before.
C16_EmptyTrajectory ==
  (pc = "done" /\ originalPoints = << >>) =>
    /\ threw = FALSE
    /\ \A r \in {analyzerResult, packageResult} :
         /\ r.originalPoints = << >>
         /\ r.processedPoints = << >>
         /\ r.filteredPoints = << >>
         /\ r.markers = << >>
         /\ r.statistics.totalInputPoints = 0
         /\ r.statistics.validOutputPoints = 0
         /\ r.statistics.filteredPointsCount = 0
         /\ r.statistics.discardedDriftPointsCount = 0
         /\ r.statistics.basePointRebuildsCount = 0
         /\ r.statistics.filteringRate = Ratio(0, 1)

\* an empty trajectory handed to an analyzer that had rebuilt its base point
C16_Witness ==
  /\ pc = "done"
  /\ originalPoints = << >>
  /\ callCount >= 3
  /\ analyzerResult # NoPoint
  /\ packageResult # NoPoint

(* --------------------------- simulator (C18, C19) ---------------------- *)
\* the fixes (lat, lng, timestamp) of the objects of an array
FixesOf(points) == { PointKey(points[i]) : i \in DOMAIN points }

\* C18: a generateSimulatedData call with the four counts 0 returns the
\* fixes of the baseline it was given, each once, in timestamp order.
C18_RoundTrip ==
  (simRuns >= 1 /\ simOptions.tunnelCount = 0) =>
    LET P == simulated.points
    IN /\ FixesOf(P) = FixesOf(baseline)
       /\ \A i, j \in DOMAIN P : i < j => P[i].timestamp <= P[j].timestamp
       /\ \A i, j \in DOMAIN P : i < j => PointKey(P[i]) # PointKey(P[j])
       /\ simulated.markers = << >>

\* C19: a generateSimulatedData call with tunnelCount 1 and the other counts
\* 0 on the baseline of 100 fixes returns fewer than 100 points and exactly
\* one tunnel marker, and the baseline indexes of the fixes it left out
\* form one range.
C19_TunnelRemoval ==
  (simRuns >= 1 /\ simOptions.tunnelCount = 1 /\ Len(baseline) = 100) =>
    LET returned == FixesOf(simulated.points)
        removed == { i \in DOMAIN baseline : PointKey(baseline[i]) \notin returned }
    IN /\ Len(simulated.points) < 100
       /\ Cardinality({ i \in DOMAIN simulated.markers :
                          simulated.markers[i].type = "tunnel" }) = 1
       /\ removed # {}
       /\ \A i, j \in removed : \A k \in i..j : k \in removed

(* C20: a GPSProcessor processPoint call that returns accepted leaves the  *)
(* drift buffer empty, and one that returns rejected appends its fix to    *)
(* the buffer: the buffer is the run of rejected fixes since the last      *)
(* accepted one.                                                           *)
C20_BufferIsRejectedRun ==
  [][ IsCall =>
        gps'.consecutiveDriftPoints =
          IF lastResult' THEN << >>
          ELSE Append(gps.consecutiveDriftPoints, lastPoint') ]_vars

\* a fix accepted on the non-drift path right after two rejected fixes
C20_Witness ==
  /\ lastResult = TRUE
  /\ gps.discardedDriftPointsCount >= 2
  /\ gps.basePointRebuildsCount = 0
  /\ gps.basePoint # NoPoint
  /\ gps.consecutiveDriftPoints = << >>

(* ------------------------- drift test (C21, C22) ----------------------- *)
\* the call just made ran the drift path: it rejected the fix, or it
\* accepted it through a linear-motion recovery or a forced rebuild (the
\* only accepted paths that count a rebuild)
TookDriftPath ==
  \/ lastResult' = FALSE
  \/ gps'.basePointRebuildsCount = gps.basePointRebuildsCount + 1

\* the call about to be made passes the warmup and expiry checks
ReachesDriftTest ==
  /\ IsCall
  /\ Len(gps.slidingWindow) >= gps.config.windowSize
  /\ ~(now' - gps.lastBasePointTime > gps.config.validityPeriod)

(* C21: a fix that reaches the drift test is treated as a drift candidate  *)
(* exactly when a base point exists, its radius is not 0 and the fix lies  *)
(* strictly farther than K * radius from it; no call rejects a fix while   *)
(* the radius is 0.                                                        *)
C21_DriftTest ==
  [][ /\ ReachesDriftTest =>
          ( TookDriftPath <=>
              /\ gps.basePoint # NoPoint
              /\ gps.basePointRadius # 0
              /\ haversineDistanceToBase(lastPoint', gps.basePoint)
                   > Sq(driftThresholdMultiplier) * gps.basePointRadius )
      /\ (IsCall /\ lastResult' = FALSE) => gps.basePointRadius # 0
    ]_vars

\* the window <<(0,4), (0,8)>> gives the base point (0,6) with radius 2;
\* the fix (0,2), at exactly K * radius = 4 from it, went down the accepted
\* path and shifted the window
C21_Witness ==
  /\ callCount = 3
  /\ gps.config.windowSize = 2
  /\ Len(gps.validPoints) = 3
  /\ gps.validPoints[1].lng = 4 /\ gps.validPoints[2].lng = 8
  /\ gps.validPoints[3].lat = 0 /\ gps.validPoints[3].lng = 2
  /\ Len(gps.slidingWindow) = 2
  /\ gps.basePointRebuildsCount = 0
  /\ lastResult = TRUE

(* C22: a processPoint call that returns rejected leaves the sliding       *)
(* window, the base point, its radius and creation time, the accepted      *)
(* list, the rebuild counter and the rebuild positions as they were; it    *)
(* appends the fix to the drift buffer and adds 1 to the discarded         *)
(* counter.                                                                *)
C22_RejectedFrame ==
  [][ (IsCall /\ lastResult' = FALSE) =>
        /\ gps'.slidingWindow = gps.slidingWindow
        /\ gps'.basePoint = gps.basePoint
        /\ gps'.basePointRadius = gps.basePointRadius
        /\ gps'.lastBasePointTime = gps.lastBasePointTime
        /\ gps'.validPoints = gps.validPoints
        /\ gps'.basePointRebuildsCount = gps.basePointRebuildsCount
        /\ gps'.basePointRebuildPositions = gps.basePointRebuildPositions
        /\ gps'.config = gps.config
        /\ gps'.consecutiveDriftPoints = Append(gps.consecutiveDriftPoints, lastPoint')
        /\ gps'.discardedDriftPointsCount = gps.discardedDriftPointsCount + 1
    ]_vars

\* the second of two fixes rejected in a row
C22_Witness ==
  /\ lastResult = FALSE
  /\ Len(gps.consecutiveDriftPoints) = 2
  /\ gps.discardedDriftPointsCount = 2
  /\ Len(gps.slidingWindow) = 2
  /\ gps.basePoint # NoPoint

(* ---------------------- window contents (C23) -------------------------- *)
(* C23: in each detector every fix held in the sliding window is in the    *)
(* accepted list; a fix reported as rejected never enters the window.      *)
C23_WindowAccepted ==
  /\ \A i \in DOMAIN gps.slidingWindow :
       gps.slidingWindow[i] \in Range(gps.validPoints)
  /\ \A i \in DOMAIN analyzer.slidingWindow :
       analyzer.slidingWindow[i].point \in Range(analyzer.validPoints)

(* ------------------- analyzer base point (C24, C25) -------------------- *)
(* C24: in the analyzer a fix accepted while a base point exists refreshes *)
(* the base point together with its creation time, so that the base point  *)
(* is invalidated only when more than validityPeriod elapses without an    *)
(* accepted fix.                                                           *)
C24_AcceptRefreshes ==
  [][ (IsCall /\ lastResult' = TRUE /\ analyzer'.basePoint # NoPoint)
        => analyzer'.basePoint.createdAt = now' ]_vars

\* radius >= MinRadius for a median of distances:
\* sqrt(lo) + sqrt(hi) >= 2 n MinRadius
AtLeastMinRadius(radius) ==
  LET Y == 4 * Sq(radius.n * MinRadius) - radius.lo - radius.hi
  IN Y <= 0 \/ 4 * radius.lo * radius.hi >= Sq(Y)

(* C25: whenever the analyzer has a base point its radius is at least      *)
(* 50 m, after the initial creation, after a refresh on an accepted fix    *)
(* and after a rebuild.                                                    *)
C25_RadiusFloor ==
  analyzer.basePoint # NoPoint =>
    \/ analyzer.basePoint.radius = FloorRadius
    \/ /\ analyzer.basePoint.radius.kind = "median"
       /\ AtLeastMinRadius(analyzer.basePoint.radius)

\* a base point rebuilt on a rejected fix, with a radius above the floor
C25_Witness ==
  /\ analyzer.basePoint # NoPoint
  /\ analyzer.basePoint.radius.kind = "median"
  /\ analyzer.basePointRebuilds >= 1
  /\ analyzer.filteredCount >= 1

(* ----------------------- minimum angle (C26) --------------------------- *)
\* the value is an angle of 0 degrees: cos^2 = 1, and not NaN
IsZeroAngle(minAngle) ==
  /\ minAngle # NaN
  /\ minAngle.cosSqNum = minAngle.cosSqDen

(* C26: the minimum-triangle-angle routine returns 0 whenever two of its   *)
(* three points coincide: checked on the triangle that the drift path      *)
(* hands to it, the last three fixes of the drift buffer.                  *)
C26_CoincidentGivesZero ==
  [][ DriftCandidateCall =>
        LET buf == Buffered(gps, lastPoint')
            n == Len(buf)
        IN ( /\ n >= 3
             /\ \/ haversineDistance(buf[n - 2], buf[n - 1]) = 0
                \/ haversineDistance(buf[n - 1], buf[n]) = 0
                \/ haversineDistance(buf[n - 2], buf[n]) = 0 )
           => \A rounding \in BOOLEAN :
                IsZeroAngle(calculateMinAngleInTriangle(buf[n - 2], buf[n - 1],
                                                        buf[n], rounding))
    ]_vars

(* ------------------------ configuration (C27) -------------------------- *)
\* the value a call with argument `partial` must leave in field f of a
\* configuration that was `base`
Merged(base, partial, f) == IF f \in DOMAIN partial THEN partial[f] ELSE base[f]

(* C27: the package constructor gives every field that is not supplied its *)
(* DEFAULT_CONFIG value; updateConfig on the package and setConfig on the  *)
(* analyzer set exactly the supplied fields and leave every other field    *)
(* of that configuration at its current value.                             *)
C27_PartialConfig ==
  [][ configCalls' = configCalls + 1 =>
        /\ configCall'.op = "constructor" =>
             \A f \in ConfigFields :
               packageConfig'[f] = Merged(DEFAULT_CONFIG, configCall'.arg, f)
        /\ configCall'.op = "updateConfig" =>
             \A f \in ConfigFields :
               packageConfig'[f] = Merged(packageConfig, configCall'.arg, f)
        /\ configCall'.op = "setConfig" =>
             /\ \A f \in ConfigFields :
                  analyzer'.config[f] = Merged(analyzer.config, configCall'.arg, f)
             /\ packageConfig' = packageConfig
    ]_vars

\* updateConfig({windowSize: 5}) on a package constructed with
\* {maxDriftSequence: 3}: both values are in place, the rest are defaults
C27_Witness ==
  /\ configCall # NoPoint
  /\ configCall.op = "updateConfig"
  /\ DOMAIN configCall.arg = {"windowSize"}
  /\ packageConfig.windowSize = 5
  /\ packageConfig.maxDriftSequence = 3
  /\ packageConfig.logLevel = DEFAULT_CONFIG.logLevel
  /\ packageConfig.earthRadius = DEFAULT_CONFIG.earthRadius

(* ------------------------ drift configs (C28) -------------------------- *)
(* C28: the configs generateDriftConfigs returns have pairwise disjoint    *)
(* inclusive index ranges [startIndex, endIndex], each with                *)
(* 0 <= startIndex < endIndex <= dataLength - 1.                           *)
C28_DisjointRanges ==
  driftConfigs # NoPoint =>
    LET configs == driftConfigs.configs
    IN /\ \A i \in DOMAIN configs :
            /\ 0 <= configs[i].startIndex
            /\ configs[i].startIndex < configs[i].endIndex
            /\ configs[i].endIndex <= driftConfigs.dataLength - 1
       /\ \A i, j \in DOMAIN configs :
            i # j =>
              \/ configs[i].endIndex < configs[j].startIndex
              \/ configs[j].endIndex < configs[i].startIndex

(* ----------------------- simulator output (C29, C30) ------------------- *)
(* C29: the points generateSimulatedData returns are in non-decreasing     *)
(* timestamp order and no two of them have the same (lat, lng, timestamp)  *)
(* key, whatever the order and the duplicates of the input and whatever    *)
(* the draws.                                                              *)
C29_SortedUnique ==
  simRuns >= 1 =>
    /\ \A i \in 1..(Len(simulated.points) - 1) :
         simulated.points[i].timestamp <= simulated.points[i + 1].timestamp
    /\ \A i, j \in DOMAIN simulated.points :
         i # j => PointKey(simulated.points[i]) # PointKey(simulated.points[j])

\* a baseline of three fixes, the second earlier than the first and the
\* third a duplicate of the first, returned as two fixes
C29_Witness ==
  /\ simRuns >= 1
  /\ Len(baseline) = 3
  /\ baseline[1].timestamp > baseline[2].timestamp
  /\ PointKey(baseline[3]) = PointKey(baseline[1])
  /\ Len(simulated.points) = 2

(* C30: generateSimulatedData does not modify the caller's fixes: after    *)
(* the call every object of originalData has the lat, lng and timestamp it *)
(* had and carries no added isDeleted tag.                                 *)
C30_InputUntouched ==
  [][ simRuns' = simRuns + 1 =>
        /\ Len(baseline') = Len(baseline)
        /\ \A i \in DOMAIN baseline :
             /\ baseline'[i].lat = baseline[i].lat
             /\ baseline'[i].lng = baseline[i].lng
             /\ baseline'[i].timestamp = baseline[i].timestamp
             /\ baseline'[i].isDeleted = baseline[i].isDeleted
    ]_vars

(* --------------------------- the data converters ------------------------ *)
\* GPSDataConverter and GPSCore carry the same parser code; DefaultDataConverter
\* is the converter of a GPSAlgorithmPackage built without one.
\*
\* A JavaScript number is NaN or Num(v).  Degrees are whole numbers.  A
\* timestamp v is the pair <<hi, lo>> that stands for hi * 10^6 + lo, with
\* 0 <= lo < 10^6, because 946684800 * 1000 does not fit 32 bits.
Num(v) == [nan |-> FALSE, val |-> v]

isNaN(x) == x = NaN

\* the JavaScript value `undefined` of a property an object does not have
Absent == [undefined |-> TRUE]

Wide(n) == <<n \div 1000000, n % 1000000>>

WideLess(a, b) == a[1] < b[1] \/ (a[1] = b[1] /\ a[2] < b[2])

WideTimes1000(a) ==
  <<a[1] * 1000 + (a[2] * 1000) \div 1000000, (a[2] * 1000) % 1000000>>

WidePlus(a, k) ==
  LET lo == a[2] + k
  IN IF lo < 0 THEN <<a[1] - 1, lo + 1000000>>
     ELSE <<a[1] + lo \div 1000000, lo % 1000000>>

year2000Timestamp == 946684800

\* Date.now() + index * 1000
GeneratedTimestamp(clock, index) == Num(Wide(clock + index * 1000))

\* A string token is described by what the two library calls the parsers
\* make on it return: parseFloat(token) and new Date(token).getTime().
Token(float, date) == [float |-> float, date |-> date]

parseFloat(token) == token.float

parseTimestamp(timestampStr) ==
  LET numericTimestamp == parseFloat(timestampStr)
      seconds == Wide(year2000Timestamp)
      millis == WideTimes1000(Wide(year2000Timestamp))
  IN IF /\ ~isNaN(numericTimestamp)
        /\ WideLess(seconds, numericTimestamp.val)
        /\ WideLess(numericTimestamp.val, millis)
       THEN Num(WideTimes1000(numericTimestamp.val))
     ELSE IF /\ ~isNaN(numericTimestamp)
             /\ WideLess(millis, numericTimestamp.val)
       THEN numericTimestamp
     ELSE timestampStr.date

\* a < bound and a > bound on JavaScript numbers: false on NaN
LessThan(a, bound) == ~isNaN(a) /\ a.val < bound

GreaterThan(a, bound) == ~isNaN(a) /\ a.val > bound

\* lat < -90 || lat > 90 || lng < -180 || lng > 180
OutOfRange(lat, lng) ==
  \/ LessThan(lat, -90)
  \/ GreaterThan(lat, 90)
  \/ LessThan(lng, -180)
  \/ GreaterThan(lng, 180)

\* parts: the tokens of the line after split, trim and filter
parseGPSLine(parts, lineIndex, clock) ==
  IF Len(parts) < 2 THEN NoPoint
  ELSE LET lat == parseFloat(parts[1])
           lng == parseFloat(parts[2])
       IN IF isNaN(lat) \/ isNaN(lng) THEN NoPoint
          ELSE IF OutOfRange(lat, lng) THEN NoPoint
          ELSE LET parsed == IF Len(parts) >= 3 THEN parseTimestamp(parts[3])
                                                ELSE NaN
               IN [lat |-> lat, lng |-> lng,
                   timestamp |-> IF isNaN(parsed)
                                   THEN GeneratedTimestamp(clock, lineIndex)
                                   ELSE parsed]

\* a line of the text: blank, a comment (# or //), or its tokens
BlankLine == [kind |-> "blank", parts |-> << >>]

CommentLine == [kind |-> "comment", parts |-> << >>]

DataLine(parts) == [kind |-> "data", parts |-> parts]

RECURSIVE parseLines(_, _, _)
\* the loop of GPSDataConverter.parseFromString from line i (0-based)
parseLines(lines, i, clock) ==
  IF i >= Len(lines) THEN << >>
  ELSE LET line == lines[i + 1]
           point == parseGPSLine(line.parts, i, clock)
           rest == parseLines(lines, i + 1, clock)
       IN IF line.kind # "data" THEN rest
          ELSE IF point # NoPoint THEN <<point>> \o rest
          ELSE rest

parseFromString(gpsString, clock) == parseLines(gpsString, 0, clock)

RECURSIVE Default_parseLines(_, _, _)
\* the loop of DefaultDataConverter.parseFromString; the marker of a comment
\* line is a token parseFloat makes NaN of
Default_parseLines(lines, i, clock) ==
  IF i >= Len(lines) THEN << >>
  ELSE LET line == lines[i + 1]
           coords == IF line.kind = "comment" THEN <<NaN>>
                     ELSE [k \in 1..Len(line.parts) |-> parseFloat(line.parts[k])]
           rest == Default_parseLines(lines, i + 1, clock)
       IN IF line.kind = "blank" THEN rest
          ELSE IF Len(coords) >= 2 /\ ~isNaN(coords[1]) /\ ~isNaN(coords[2])
            THEN <<[lat |-> coords[1], lng |-> coords[2],
                    timestamp |-> GeneratedTimestamp(clock, i)]>> \o rest
          ELSE rest

Default_parseFromString(gpsString, clock) == Default_parseLines(gpsString, 0, clock)

\* JSON values: an array is Arr(items), an object a record of its properties,
\* a string a Token, a number Num(v) or NaN
Arr(items) == [array |-> items]

isArray(v) == "array" \in DOMAIN v

typeofNumber(v) == "nan" \in DOMAIN v

typeofString(v) == "float" \in DOMAIN v

typeofObject(v) == ~typeofNumber(v) /\ ~typeofString(v) /\ v # Absent

\* obj[field]
Get(obj, field) == IF field \in DOMAIN obj THEN obj[field] ELSE Absent

latFields == <<"lat", "latitude", "latitude1", "y">>

lngFields == <<"lng", "lon", "longitude", "longitude1", "x">>

timestampFields == <<"timestamp", "time", "currentTime", "date", "datetime">>

possibleArrayFields ==
  <<"points", "data", "locations", "coordinates", "trajectory", "path">>

RECURSIVE FirstNumber(_, _, _)
\* the loops over latFields and lngFields: the first property that is a number
FirstNumber(obj, fields, k) ==
  IF k > Len(fields) THEN Absent
  ELSE IF typeofNumber(Get(obj, fields[k])) THEN Get(obj, fields[k])
  ELSE FirstNumber(obj, fields, k + 1)

RECURSIVE FindTimestamp(_, _, _)
\* the loop over timestampFields; timestamp is its local variable
FindTimestamp(obj, k, timestamp) ==
  IF k > Len(timestampFields) THEN timestamp
  ELSE LET value == Get(obj, timestampFields[k])
           found == IF typeofNumber(value) THEN value
                    ELSE IF typeofString(value) THEN parseTimestamp(value)
                    ELSE timestamp
       IN IF value = Absent THEN FindTimestamp(obj, k + 1, timestamp)
          ELSE IF found # Absent /\ ~isNaN(found) THEN found
          ELSE FindTimestamp(obj, k + 1, found)

parseGPSObject(obj, index, clock) ==
  IF ~typeofObject(obj) THEN NoPoint
  ELSE LET lat == FirstNumber(obj, latFields, 1)
           lng == FirstNumber(obj, lngFields, 1)
           timestamp == FindTimestamp(obj, 1, Absent)
       IN IF lat = Absent \/ lng = Absent THEN NoPoint
          ELSE IF OutOfRange(lat, lng) THEN NoPoint
          ELSE [lat |-> lat, lng |-> lng,
                timestamp |-> IF timestamp = Absent \/ isNaN(timestamp)
                                THEN GeneratedTimestamp(clock, index)
                                ELSE timestamp]

RECURSIVE parseGPSArray(_, _, _)
\* the loop of parseGPSArray from element i (0-based)
parseGPSArray(array, i, clock) ==
  IF i >= Len(array) THEN << >>
  ELSE LET point == parseGPSObject(array[i + 1], i, clock)
           rest == parseGPSArray(array, i + 1, clock)
       IN IF point # NoPoint THEN <<point>> \o rest ELSE rest

\* what a converter call gives: the fixes it returned, or Thrown
Returned(points) == [points |-> points]

RECURSIVE FirstArrayField(_, _)
\* the loop over possibleArrayFields: the first property that is an array
FirstArrayField(jsonData, k) ==
  IF k > Len(possibleArrayFields) THEN Absent
  ELSE IF isArray(Get(jsonData, possibleArrayFields[k]))
    THEN Get(jsonData, possibleArrayFields[k])
  ELSE FirstArrayField(jsonData, k + 1)

loadFromJSON(jsonData, clock) ==
  IF isArray(jsonData) THEN Returned(parseGPSArray(jsonData.array, 0, clock))
  ELSE IF ~typeofObject(jsonData) THEN Thrown
  ELSE LET field == FirstArrayField(jsonData, 1)
           data == Get(jsonData, "data")
       IN IF field # Absent THEN Returned(parseGPSArray(field.array, 0, clock))
          ELSE IF isArray(data) /\ Len(data.array) > 0
            THEN LET firstDataItem == data.array[1]
                     locations == Get(firstDataItem, "locations")
                     section == Get(firstDataItem, "section")
                     inSection == IF section = Absent THEN Absent
                                  ELSE Get(section, "locations")
                 IN IF isArray(locations)
                      THEN Returned(parseGPSArray(locations.array, 0, clock))
                    ELSE IF isArray(inSection)
                      THEN Returned(parseGPSArray(inSection.array, 0, clock))
                    ELSE Thrown
          ELSE Thrown

\* a >= bound and a <= bound on JavaScript numbers: false on NaN
AtLeast(a, bound) == ~isNaN(a) /\ a.val >= bound

AtMost(a, bound) == ~isNaN(a) /\ a.val <= bound

validateGPSPoint(point) ==
  /\ typeofObject(point)
  /\ typeofNumber(Get(point, "lat"))
  /\ typeofNumber(Get(point, "lng"))
  /\ typeofNumber(Get(point, "timestamp"))
  /\ AtLeast(point.lat, -90) /\ AtMost(point.lat, 90)
  /\ AtLeast(point.lng, -180) /\ AtMost(point.lng, 180)
  /\ ~isNaN(point.timestamp) /\ WideLess(<<0, 0>>, point.timestamp.val)

validateGPSPoints(points) == SelectSeq(points, validateGPSPoint)

Default_loadFromJSON(jsonData) ==
  IF isArray(jsonData) THEN Returned(validateGPSPoints(jsonData.array))
  ELSE Thrown

(* ------------------- the converters on short inputs -------------------- *)
MaxLines == 2
MaxItems == 2

\* coordinate tokens: whole degrees on both sides of the two ranges, and a
\* token that is not a number
CoordTokens ==
  { Token(Num(v), NaN) : v \in {-181, -90, 91, 180} } \cup { Token(NaN, NaN) }

\* "2000" and "1970" are years of the Date Time String Format, which new Date
\* reads as the start of the year in UTC
IsoYearTokens ==
  { Token(Num(Wide(2000)), Num(WideTimes1000(Wide(year2000Timestamp)))),
    Token(Num(Wide(1970)), Num(Wide(0))) }

\* digit strings next to 946684800 and to 946684800000: new Date makes an
\* invalid date of an unsigned digit string that long
BoundaryTokens ==
  { Token(Num(WidePlus(Wide(year2000Timestamp), k)), NaN) : k \in -1..1 }
    \cup
  { Token(Num(WidePlus(WideTimes1000(Wide(year2000Timestamp)), k)), NaN) :
      k \in -1..1 }

\* "2000-01-01T00:00:01Z", of which parseFloat reads the leading 2000, and a
\* word
OtherTokens ==
  { Token(Num(Wide(2000)), Num(WidePlus(WideTimes1000(Wide(year2000Timestamp)), 1000))),
    Token(NaN, NaN) }

\* the tokens that are digit strings
NumericTokens == IsoYearTokens \cup BoundaryTokens

TimestampTokens == NumericTokens \cup OtherTokens

\* the timestamp token used in lines and objects: "946684801"
LineTimestamps == { Token(Num(WidePlus(Wide(year2000Timestamp), 1)), NaN) }

Lines ==
  {BlankLine, CommentLine}
    \cup { DataLine(<<a>>) : a \in CoordTokens }
    \cup { DataLine(<<a, b>>) : a \in CoordTokens, b \in CoordTokens }
    \cup { DataLine(<<a, b, t>>) :
             a \in CoordTokens, b \in CoordTokens, t \in LineTimestamps }

\* gpsString.trim().split('\n') of the texts of up to maxLines lines: at
\* least one line, and a blank line only between two others or alone
Texts(maxLines) ==
  { text \in UNION { [1..n -> Lines] : n \in 1..maxLines } :
      Len(text) > 1 => text[1] # BlankLine /\ text[Len(text)] # BlankLine }

LatValues == {Absent, Num(-91), Num(90), NaN}
LngValues == {Num(180), Num(181)}
TimeValues == {Absent, Num(Wide(1000))} \cup LineTimestamps

\* the object that has the properties given, under the first name of each list
Leaf(lat, lng, time) ==
  LET value == [lat |-> lat, lng |-> lng, timestamp |-> time]
  IN [f \in {g \in {"lat", "lng", "timestamp"} : value[g] # Absent} |-> value[f]]

Leaves == { Leaf(lat, lng, time) :
              lat \in LatValues, lng \in LngValues, time \in TimeValues }

\* the arrays of up to maxItems objects
Arrays(maxItems) ==
  { Arr(items) : items \in UNION { [1..n -> Leaves] : n \in 0..maxItems } }

\* an object that carries one of the arrays under one top-level property
TopLevel(arrays) ==
  { [f \in {field} |-> array] :
      field \in {possibleArrayFields[k] : k \in 1..Len(possibleArrayFields)},
      array \in arrays }

\* an object whose data array's first element carries one of the arrays
Nested(arrays) ==
  { [data |-> Arr(<<[locations |-> array]>>)] : array \in arrays }
    \cup { [data |-> Arr(<<[section |-> [locations |-> array]]>>)] : array \in arrays }

\* an object with no array in it, and a number
Unrecognized == { [name |-> Token(NaN, NaN)], Num(0) }

Documents(arrays) ==
  arrays \cup TopLevel(arrays) \cup Nested(arrays) \cup Unrecognized

Converters == {"GPSDataConverter", "DefaultDataConverter"}

\* no detector, simulator or package in use; no converter called yet
InitParsers == InitDriftConfigs

\* converter.parseFromString(gpsString)
ParseFromString ==
  /\ parserCall = NoPoint
  /\ \E converter \in Converters, gpsString \in Texts(MaxLines) :
       parserCall' =
         [op |-> "parseFromString", converter |-> converter, input |-> gpsString,
          output |-> IF converter = "GPSDataConverter"
                       THEN Returned(parseFromString(gpsString, now))
                       ELSE Returned(Default_parseFromString(gpsString, now))]
  /\ UNCHANGED <<detectorVars, simVars, configVars>>

\* converter.loadFromJSON(jsonData)
LoadFromJSON ==
  /\ parserCall = NoPoint
  /\ \E converter \in Converters, jsonData \in Documents(Arrays(MaxItems)) :
       parserCall' =
         [op |-> "loadFromJSON", converter |-> converter, input |-> jsonData,
          output |-> IF converter = "GPSDataConverter"
                       THEN loadFromJSON(jsonData, now)
                       ELSE Default_loadFromJSON(jsonData)]
  /\ UNCHANGED <<detectorVars, simVars, configVars>>

\* GPSDataConverter's parseTimestamp(timestampStr)
ParseTimestamp ==
  /\ parserCall = NoPoint
  /\ \E timestampStr \in TimestampTokens :
       parserCall' =
         [op |-> "parseTimestamp", converter |-> "GPSDataConverter",
          input |-> timestampStr, output |-> parseTimestamp(timestampStr)]
  /\ UNCHANGED <<detectorVars, simVars, configVars>>

NextParsers == ParseFromString \/ LoadFromJSON \/ ParseTimestamp

SpecParsers == InitParsers /\ [][NextParsers]_vars

\* the converter call made was op, and it returned fixes
ReturnedFrom(op) ==
  /\ parserCall # NoPoint
  /\ parserCall.op = op
  /\ ~IsThrown(parserCall.output)

InRange(point) ==
  /\ AtLeast(point.lat, -90) /\ AtMost(point.lat, 90)
  /\ AtLeast(point.lng, -180) /\ AtMost(point.lng, 180)

\* C31: every fix that parseFromString or loadFromJSON returns, in either
\* converter, has lat within [-90, 90] and lng within [-180, 180]
C31_EmittedInRange ==
  \A op \in {"parseFromString", "loadFromJSON"} :
    ReturnedFrom(op) =>
      \A k \in 1..Len(parserCall.output.points) :
        InRange(parserCall.output.points[k])

\* the value the numeric rule gives a number n: n * 1000 from 946684800 up
\* to, not including, 946684800000, and n itself otherwise
SecondsOrMilliseconds(n) ==
  LET seconds == Wide(year2000Timestamp)
      millis == WideTimes1000(Wide(year2000Timestamp))
  IN IF ~WideLess(n, seconds) /\ WideLess(n, millis) THEN WideTimes1000(n)
     ELSE n

\* C32: parseTimestamp on a numeric token n returns n * 1000 when
\* 946684800 <= n < 946684800000 and n itself for every other n, the two
\* boundary values and the values below 946684800 included
C32_SecondsOrMilliseconds ==
  ( /\ parserCall # NoPoint
    /\ parserCall.op = "parseTimestamp"
    /\ parserCall.input \in NumericTokens )
  => parserCall.output = Num(SecondsOrMilliseconds(parseFloat(parserCall.input).val))

\* jsonData has no top-level array but data, whose first element carries an
\* array under locations or under section.locations
IsNested(jsonData) ==
  /\ DOMAIN jsonData = {"data"}
  /\ isArray(jsonData.data)
  /\ Len(jsonData.data.array) > 0
  /\ LET firstDataItem == jsonData.data.array[1]
     IN \/ isArray(Get(firstDataItem, "locations"))
        \/ /\ Get(firstDataItem, "section") # Absent
           /\ isArray(Get(firstDataItem.section, "locations"))

\* the array such an object carries in the first element of data
NestedFixes(jsonData) ==
  LET firstDataItem == jsonData.data.array[1]
  IN IF "locations" \in DOMAIN firstDataItem THEN firstDataItem.locations
     ELSE firstDataItem.section.locations

\* C33: GPSDataConverter.loadFromJSON on an object with no top-level array of
\* fixes, whose data[0].locations or data[0].section.locations carries the
\* fixes, returns the fixes parsed from that nested array
C33_NestedFallback ==
  ( /\ parserCall # NoPoint
    /\ parserCall.op = "loadFromJSON"
    /\ parserCall.converter = "GPSDataConverter"
    /\ IsNested(parserCall.input) )
  => parserCall.output =
       Returned(parseGPSArray(NestedFixes(parserCall.input).array, 0, now))

\* C34: after n processPoint calls on a fresh GPSProcessor, getStatus() gives
\* validPointsCount + discardedDriftPointsCount = n, linear-motion recoveries
\* and forced rebuilds included
C34_CountedOnce ==
  ~threw =>
    getStatus(gps, now).validPointsCount
      + getStatus(gps, now).discardedDriftPointsCount = callCount

(* ------------- processTrajectory on a trajectory along a line ----------- *)
(* One processTrajectory call on both detectors, built with the same       *)
(* configuration, over fixes that lie on one line.                         *)
MaxLinear == 7           \* longest trajectory handed to processTrajectory

LinearConfigs ==
  { [windowSize |-> 3, validityPeriod |-> validityPeriod, maxDriftSequence |-> 3] }

LinearPositions == { <<0, 0>>, <<0, 4>>, <<0, 8>> }

InitLinear ==
  /\ \E cfg \in LinearConfigs :
       gps = FreshProcessor(cfg) /\ analyzer = Analyzer_reset(cfg)
  /\ now = Epoch
  /\ callCount = 0
  /\ lastPoint = NoPoint
  /\ lastResult = TRUE
  /\ pc = "idle"
  /\ originalPoints = << >>
  /\ filteredPoints = << >>
  /\ result = NoPoint
  /\ driftRun = 0
  /\ readings = << >>
  /\ analyzerLocals = NoLocals
  /\ analyzerResult = NoPoint
  /\ packageResult = NoPoint
  /\ threw = FALSE
  /\ SimulatorUnused
  /\ ConfigUnused
  /\ ParserUnused

\* entry of processTrajectory in both detectors
LinearBegin ==
  /\ pc = "idle"
  /\ ReplayBegin

\* one iteration of the loop over the trajectory in both detectors
LinearStep ==
  /\ pc = "loop"
  /\ Len(originalPoints) < MaxLinear
  /\ \E pos \in LinearPositions, dt \in Advances :
     \E rounding \in Roundings(gps, GPSPoint(pos, now + dt)) :
       /\ LET point == GPSPoint(pos, now + dt)
          IN \E r \in { processPoint(gps, point, now + dt, rounding) },
                ra \in { Analyzer_processPoint(analyzer, point, now + dt) } :
             \E failed \in { r.threw \/ ra.threw } :
             /\ gps' = r.st
             /\ analyzer' = ra.st
             /\ lastResult' = r.ret
             /\ threw' = failed
             /\ lastPoint' = point
             /\ originalPoints' = Append(originalPoints, point)
             /\ readings' = Append(readings, [t |-> now + dt, rounding |-> rounding])
             /\ filteredPoints' =
                  IF r.ret /\ ~failed THEN Append(filteredPoints, point)
                                      ELSE filteredPoints
             /\ analyzerLocals' =
                  IF failed THEN analyzerLocals
                  ELSE IF ra.ret
                    THEN [analyzerLocals EXCEPT !.processedPoints = Append(@, point)]
                    ELSE [analyzerLocals EXCEPT !.filteredPoints = Append(@, point)]
             /\ pc' = IF failed THEN "failed" ELSE pc
       /\ now' = now + dt
  /\ UNCHANGED <<callCount, result, analyzerResult, packageResult, driftRun, simVars, configVars, parserVars>>

NextLinear == LinearBegin \/ LinearStep \/ ReplayReturn

SpecLinear == InitLinear /\ [][NextLinear]_vars

\* the fix of an entry of a detector's list, without the fields it added
AsFix(p) == [lat |-> p.lat, lng |-> p.lng, timestamp |-> p.timestamp]

AsFixes(list) == [k \in 1..Len(list) |-> AsFix(list[k])]

\* C35: after processTrajectory(T) has returned, result.processedPoints holds
\* exactly the fixes of the detector's accepted list, those accepted by a
\* linear-motion recovery included, in GPSProcessor and in the analyzer
C35_ResultMatchesAccepted ==
  pc = "done" =>
    /\ AsFixes(result.processedPoints) = AsFixes(gps.validPoints)
    /\ Len(result.processedPoints) = getStatus(gps, now).validPointsCount
    /\ AsFixes(analyzerResult.processedPoints) = AsFixes(analyzer.validPoints)
    /\ Len(analyzerResult.processedPoints)
         = Analyzer_getStatus(analyzer, now).validPointsCount

\* C36: after any sequence of processPoint calls on the analyzer the
\* statistics stay in range: filteredPointsCount >= 0,
\* discardedDriftPointsCount >= 0, and the accepted fixes are at most
\* totalInputPoints, no input fix being in the accepted list twice
C36_StatisticsInRange ==
  LET statistics == Analyzer_getStatus(analyzer, now).statistics
  IN ~threw =>
       /\ statistics.filteredPointsCount >= 0
       /\ statistics.discardedDriftPointsCount >= 0
       /\ statistics.validOutputPoints <= statistics.totalInputPoints
       /\ \A i, j \in 1..Len(analyzer.validPoints) :
            analyzer.validPoints[i].index = analyzer.validPoints[j].index => i = j

\* C37: a base point of the analyzer, however it was created, refreshed or
\* rebuilt, is computed from at most windowSize accepted fixes:
\* basePoint.validPointsCount <= W, also when re-created after an expiry
C37_BaseFromWindow ==
  (~threw /\ analyzer.basePoint # NoPoint)
    => analyzer.basePoint.validPointsCount <= analyzer.config.windowSize

\* the markers hold a 'drift' marker at the position of fix f
HasDriftMarker(markers, f) ==
  \E k \in 1..Len(markers) :
    /\ markers[k].type = "drift"
    /\ markers[k].position = [lat |-> f.lat, lng |-> f.lng]
    /\ markers[k].timestamp = f.timestamp

\* C38: after the analyzer's processTrajectory(T) has returned, every fix of
\* result.filteredPoints has a 'drift' marker at its position in
\* result.markers, with or without a rebuild, wherever the fix lies in T
C38_FilteredAreMarked ==
  pc = "done" =>
    \A i \in 1..Len(analyzerResult.filteredPoints) :
      HasDriftMarker(analyzerResult.markers, analyzerResult.filteredPoints[i])

(* ------------ reconfiguring a GPSProcessor between calls ---------------- *)
\* this.config = { ...this.config, ...newConfig }
updateConfig(st, newConfig) ==
  [st EXCEPT !.config = [f \in DOMAIN st.config |->
                           IF f \in DOMAIN newConfig THEN newConfig[f]
                                                     ELSE st.config[f]]]

\* processor.updateConfig({windowSize: w}), once in a behaviour; configCall
\* keeps the call, the configuration it replaced and the number of
\* processPoint calls before it
UpdateConfig ==
  /\ configCall = NoPoint
  /\ \E w \in 1..MaxWindowSize :
     \E newConfig \in { [windowSize |-> w] } :
       /\ gps' = updateConfig(gps, newConfig)
       /\ configCall' = [op |-> "updateConfig", arg |-> newConfig,
                         before |-> gps.config, at |-> callCount]
  /\ configCalls' = configCalls + 1
  /\ UNCHANGED <<now, callCount, lastPoint, lastResult, batchVars, analyzer,
                 driftRun, replayVars, threw, simVars, packageConfig, parserVars>>

NextReconfigure == ProcessPoint \/ UpdateConfig

SpecReconfigure == Init /\ [][NextReconfigure]_vars

\* the step is the first processPoint call after an updateConfig that lowered
\* windowSize below the number of fixes the window held
FirstCallAfterLowering ==
  /\ callCount' = callCount + 1
  /\ configCall # NoPoint
  /\ configCall.at = callCount
  /\ Len(gps.slidingWindow) <= configCall.before.windowSize
  /\ Len(gps.slidingWindow) > gps.config.windowSize

\* C39: after updateConfig lowered windowSize to W' while the window held more
\* than W' fixes, the window holds at most W' fixes after the next
\* processPoint call, whatever the call's outcome
C39_WindowAfterLowering ==
  [][FirstCallAfterLowering
       => Len(gps'.slidingWindow) <= gps'.config.windowSize]_vars
====
